---- MODULE Spec2Model ----
(***************************************************************************)
(* State-machine model of the matterjs-ts demo: the GameManager singleton  *)
(* (score / attempts / game-over), the BoundaryBox collection zone with    *)
(* its two collection paths (collisionStart handler and afterUpdate        *)
(* polling), and the input handlers that add or remove bodies.             *)
(*                                                                         *)
(* Lengths are integers in twelfths of a pixel (Scale), so that the box    *)
(* offset 50.5 / 1.2 = 505/12 px of BoundaryBox.createBoxParts is exact.   *)
(***************************************************************************)
EXTENDS Integers, Sequences, FiniteSets, TLC

\* ------------------------------------------------------------------ bounds
MaxScore == 4        \* addScore is not called once score would pass this
MaxAttempts == 2     \* addAttempt is not called once attempts would pass this
MaxPoints == 2       \* largest argument given to addScore / addAttempt
MaxCreated == 1      \* bodies created by Ctrl+click during one run
MaxPairs == 2        \* pairs delivered in one collisionStart event
MaxResizes == 2      \* calls of BoundaryBox.resize during one run
MaxControls == 2     \* DebugControls constructed on one page
MaxDragged == 3      \* bodies created by Ctrl+drag during one run

\* ------------------------------------------------------- program constants
Scale == 12
BoxA_width == 180 * Scale
BoxA_height == 140 * Scale
WallOffset == 505            \* 50.5 / 1.2 px, in twelfths of a pixel
WallThickness == 606         \* 50.5 px
BoxWallThickness == 2 * Scale
CreationInterval == 100   \* ms between two drag creations
SettledInset == 85 * Scale
NumShapes == 3

\* Canvas for which the goal region is x in 700..880, y in 370..510 (px).
CanvasWidth == 880 * Scale + WallOffset
CanvasHeight == 510 * Scale + WallOffset

\* ---------------------------------------------------------------- helpers
Pt(px, py) == [x |-> px * Scale, y |-> py * Scale]

\* Sample centres: left of the box, on the box's left edge, strictly inside
\* the box above the inset line, exactly on the inset line, inside the
\* settled zone.
Points ==
  { Pt(650, 420), Pt(700, 480), Pt(750, 420), Pt(750, 455), Pt(750, 480) }

\* Where the pointer is for a click or a button press: outside the box, on
\* the box's left wall, inside the box.
ClickPoints == { Pt(650, 420), Pt(700, 480), Pt(750, 480) }

Range(s) == { s[i] : i \in 1..Len(s) }

VARIABLES
  gm,        \* the GameManager singleton's fields and the DOM it drives
  bodies,    \* body id -> [isStatic, x, y, w, h]: the Matter bodies alive
  world,     \* Composite.allBodies(world): ids in insertion order
  box,       \* the BoundaryBox: width, height, boxParts, boxDimensions
  nextId,    \* Matter's Common.nextId counter
  phase,     \* position inside Engine.update: idle / integrated / collided
  collected,      \* bodies the box scored during the last handler, in order
  gameOverShown,  \* showGameOverModal calls made by the last handler
  callbackCalls,  \* restart callback invocations made by the last handler
  callbackSaw,    \* what each of those invocations found in the GameManager
  lastCreationTime,  \* window.lastCreationTime in ms: 0 while undefined
  wrapper,   \* the BodyWrapper: bounds
  instance,  \* GameManager.instance: 0 when unset, else the object's number
  forced,    \* bodies the last handler called Body.applyForce on, in order
  debug,     \* DebugControl: localStorage item, checkboxes, controls, renderer
  boundaryWalls  \* the BoundaryWalls: width, height and the walls it holds

vars ==
  <<gm, bodies, world, box, nextId, phase, collected, gameOverShown,
    callbackCalls, callbackSaw, lastCreationTime, wrapper, instance, forced,
    debug, boundaryWalls>>

\* The part of the state a handler works on while it runs: the GameManager,
\* the world's body list, and what the handler has notified so far.
Run ==
  [gm |-> gm, world |-> world, got |-> <<>>, shown |-> 0, calls |-> 0,
   forced |-> <<>>, saw |-> <<>>, lastCreationTime |-> lastCreationTime]

Finish(s) ==
  /\ gm' = s.gm
  /\ world' = s.world
  /\ collected' = s.got
  /\ gameOverShown' = s.shown
  /\ callbackCalls' = s.calls
  /\ callbackSaw' = s.saw
  /\ lastCreationTime' = s.lastCreationTime
  /\ wrapper' = wrapper
  /\ instance' = instance
  /\ forced' = s.forced
  /\ debug' = debug
  /\ boundaryWalls' = boundaryWalls


\* ------------------------------------------------------------ the engine
\* Engine.getAllBodies().filter(body => !body.isStatic)
NonStaticBodies(w) == SelectSeq(w, LAMBDA b : ~bodies[b].isStatic)

\* Matter.Composite.remove(world, body): an absent body is a no-op.
removeBody(s, b) ==
  [s EXCEPT !.world = SelectSeq(s.world, LAMBDA c : c # b)]

\* ------------------------------------------------------------ GameManager
\* Math.round(score / attempts * 100); a division by zero gives NaN or
\* Infinity, which the template string prints as such.
Ratio(score, attempts) ==
  IF attempts = 0
  THEN (IF score = 0 THEN "NaN" ELSE "Infinity")
  ELSE (200 * score + attempts) \div (2 * attempts)

updateScoreDisplay(s) ==
  [s EXCEPT !.gm.scoreText = <<"Score: ", s.gm.score>>]

updateAttemptsDisplay(s) ==
  [s EXCEPT !.gm.attemptsText = <<"Attempts: ", s.gm.attempts>>]

showGameOverModal(s) ==
  [s EXCEPT !.gm.finalScoreText = <<"Final Score: ", s.gm.score>>,
            !.gm.finalAttemptsText =
               <<"Total Attempts: ", s.gm.attempts,
                 Ratio(s.gm.score, s.gm.attempts)>>,
            !.gm.modalVisible = TRUE,
            !.shown = s.shown + 1]

hideGameOverModal(s) == [s EXCEPT !.gm.modalVisible = FALSE]

\* checkGameOver without the test of the initial body count.
checkGameOver_NoInitialCount(s) ==
  IF s.gm.isGameOver \/ ~s.gm.engine
  THEN s
  ELSE IF Len(NonStaticBodies(s.world)) = 0
       THEN showGameOverModal([s EXCEPT !.gm.isGameOver = TRUE])
       ELSE s

\* checkGameOver without the early return when the game is already over.
checkGameOver_Retrigger(s) ==
  IF ~s.gm.engine
  THEN s
  ELSE IF Len(NonStaticBodies(s.world)) = 0 /\ s.gm.initialBodyCount > 0
       THEN showGameOverModal([s EXCEPT !.gm.isGameOver = TRUE])
       ELSE s

\* checkGameOver without the test of the engine reference.
checkGameOver_IgnoresEngine(s) ==
  IF s.gm.isGameOver
  THEN s
  ELSE IF Len(NonStaticBodies(s.world)) = 0 /\ s.gm.initialBodyCount > 0
       THEN showGameOverModal([s EXCEPT !.gm.isGameOver = TRUE])
       ELSE s

\* checkGameOver that evaluates the condition again when the game is over
\* and reopens the game when the condition no longer holds.
checkGameOver_Reevaluates(s) ==
  IF ~s.gm.engine
  THEN s
  ELSE IF Len(NonStaticBodies(s.world)) = 0 /\ s.gm.initialBodyCount > 0
       THEN (IF s.gm.isGameOver THEN s
             ELSE showGameOverModal([s EXCEPT !.gm.isGameOver = TRUE]))
       ELSE [s EXCEPT !.gm.isGameOver = FALSE]

checkGameOver(s) ==
  IF s.gm.isGameOver \/ ~s.gm.engine
  THEN s
  ELSE IF Len(NonStaticBodies(s.world)) = 0 /\ s.gm.initialBodyCount > 0
       THEN showGameOverModal([s EXCEPT !.gm.isGameOver = TRUE])
       ELSE s

\* addScore that adds one point whatever its argument.
addScore_IgnoresPoints(s, points) ==
  LET s1 == [s EXCEPT !.gm.score = s.gm.score + 1]
  IN checkGameOver(updateScoreDisplay(s1))

\* addScore with the sign of the update reversed.
addScore_Subtracts(s, points) ==
  LET s1 == [s EXCEPT !.gm.score = s.gm.score - points]
  IN checkGameOver(updateScoreDisplay(s1))

addScore(s, points) ==
  LET s1 == [s EXCEPT !.gm.score = s.gm.score + points]
  IN checkGameOver(updateScoreDisplay(s1))

\* addAttempt followed by the evaluation of the game-over condition.
addAttempt_Evaluates(s, count) ==
  LET s1 == [s EXCEPT !.gm.attempts = s.gm.attempts + count]
  IN checkGameOver(updateAttemptsDisplay(s1))

addAttempt(s, count) ==
  LET s1 == [s EXCEPT !.gm.attempts = s.gm.attempts + count]
  IN updateAttemptsDisplay(s1)

\* resetScore that leaves the display as it is.
resetScore_NoDisplay(s) == [s EXCEPT !.gm.score = 0]

resetScore(s) == updateScoreDisplay([s EXCEPT !.gm.score = 0])

resetAttempts(s) == updateAttemptsDisplay([s EXCEPT !.gm.attempts = 0])

\* resetGame without the call of resetAttempts.
resetGame_KeepsAttempts(s) ==
  [resetScore(s) EXCEPT !.gm.isGameOver = FALSE]

resetGame(s) ==
  [resetAttempts(resetScore(s)) EXCEPT !.gm.isGameOver = FALSE]

\* What a restart callback can read from the GameManager when it is called.
Seen(s) ==
  [score |-> s.gm.score, attempts |-> s.gm.attempts,
   isGameOver |-> s.gm.isGameOver, modalVisible |-> s.gm.modalVisible]

\* this.restartCallback()
callRestartCallback(s) ==
  [s EXCEPT !.calls = s.calls + 1, !.saw = Append(s.saw, Seen(s))]

\* restartGame without the test that a callback is registered.
restartGame_AlwaysCalls(s) ==
  LET s1 == resetGame(hideGameOverModal(s))
  IN callRestartCallback(s1)

\* restartGame that calls the callback before it hides and resets.
restartGame_CallbackFirst(s) ==
  LET s1 == IF s.gm.restartCallback THEN callRestartCallback(s) ELSE s
  IN resetGame(hideGameOverModal(s1))

\* The restart button's click listener.  The callback itself is supplied by
\* the caller of setRestartCallback; only its invocation is recorded.
restartGame(s) ==
  LET s1 == resetGame(hideGameOverModal(s))
  IN IF s1.gm.restartCallback
     THEN callRestartCallback(s1)
     ELSE s1


\* ------------------------------------------------------------ BoundaryBox
StaticRect(cx, cy, rw, rh) ==
  [isStatic |-> TRUE, x |-> cx, y |-> cy, w |-> rw, h |-> rh]

\* A movable body; its outline is not modelled, only its centre.
Movable(p) == [isStatic |-> FALSE, x |-> p.x, y |-> p.y, w |-> 0, h |-> 0]

\* boxDimensions as computed by createBoxParts from the canvas size.
BoxDimensions(width, height) ==
  LET BoxA_x_position == width - (WallOffset + BoxA_width \div 2)
      BoxA_y_position == height - (WallOffset + BoxA_height \div 2)
  IN [x |-> BoxA_x_position - BoxA_width \div 2,
      y |-> BoxA_y_position - BoxA_height \div 2,
      width |-> BoxA_width,
      height |-> BoxA_height]

\* The three walls created by createBoxParts: bottomBox, leftBox, rightBox.
BoxWalls(width, height) ==
  LET BoxA_x_position == width - (WallOffset + BoxA_width \div 2)
      BoxA_y_position == height - (WallOffset + BoxA_height \div 2)
  IN << StaticRect(BoxA_x_position, BoxA_y_position + BoxA_height \div 2,
                   BoxA_width, BoxWallThickness),
        StaticRect(BoxA_x_position - BoxA_width \div 2, BoxA_y_position,
                   BoxWallThickness, BoxA_height),
        StaticRect(BoxA_x_position + BoxA_width \div 2, BoxA_y_position,
                   BoxWallThickness, BoxA_height) >>

\* The four screen walls created by BoundaryWalls.createWalls:
\* bottomWall, leftWall, rightWall, topWall.
ScreenWalls(width, height) ==
  << StaticRect(width \div 2, height, width, WallThickness),
     StaticRect(0, height \div 2, WallThickness, height),
     StaticRect(width, height \div 2, WallThickness, height),
     StaticRect(width \div 2, 0, width, WallThickness) >>

\* The BoundaryWalls after its constructor: its four walls are the first
\* bodies of the world.
InitialBoundaryWalls ==
  [width |-> CanvasWidth, height |-> CanvasHeight, walls |-> <<1, 2, 3, 4>>]

\* The three bodies created by InitialShapes.createShapes.
InitialShapes == << Movable(Pt(200, 460)), Movable(Pt(400, 460)), Movable(Pt(600, 460)) >>

\* isBodyInBox with the zone moved down by the inset instead of narrowed.
isBodyInBox_ShiftedDown(b) ==
  /\ bodies[b].x > box.boxDimensions.x
  /\ bodies[b].x < box.boxDimensions.x + box.boxDimensions.width
  /\ bodies[b].y > box.boxDimensions.y + SettledInset
  /\ bodies[b].y < box.boxDimensions.y + box.boxDimensions.height
                   + SettledInset

\* isBodyInBox without the inset: the whole box.
isBodyInBox_NoInset(b) ==
  /\ bodies[b].x > box.boxDimensions.x
  /\ bodies[b].x < box.boxDimensions.x + box.boxDimensions.width
  /\ bodies[b].y > box.boxDimensions.y
  /\ bodies[b].y < box.boxDimensions.y + box.boxDimensions.height

\* Polling path's test: the box narrowed by 85 px from its top edge.
isBodyInBox(b) ==
  /\ bodies[b].x > box.boxDimensions.x
  /\ bodies[b].x < box.boxDimensions.x + box.boxDimensions.width
  /\ bodies[b].y > box.boxDimensions.y + SettledInset
  /\ bodies[b].y < box.boxDimensions.y + box.boxDimensions.height

\* isBodyInsideBox with the left edge counted as inside.
isBodyInsideBox_LeftEdgeInside(b) ==
  /\ bodies[b].x >= box.boxDimensions.x
  /\ bodies[b].x < box.boxDimensions.x + box.boxDimensions.width
  /\ bodies[b].y > box.boxDimensions.y
  /\ bodies[b].y < box.boxDimensions.y + box.boxDimensions.height

\* Collision path's test: the whole box.
isBodyInsideBox(b) ==
  /\ bodies[b].x > box.boxDimensions.x
  /\ bodies[b].x < box.boxDimensions.x + box.boxDimensions.width
  /\ bodies[b].y > box.boxDimensions.y
  /\ bodies[b].y < box.boxDimensions.y + box.boxDimensions.height

\* Notes that the box is about to score body b.
Collect(s, b) == [s EXCEPT !.got = Append(s.got, b)]

\* handlePair that looks for the box part on side A only.
handlePair_SideAOnly(s, pair) ==
  LET bodyA == pair[1]
      bodyB == pair[2]
      isBoxPartA == bodyA \in Range(box.boxParts)
      otherBody == bodyB
  IN IF ~isBoxPartA THEN s
     ELSE IF bodies[otherBody].isStatic THEN s
     ELSE IF isBodyInsideBox(otherBody)
          THEN checkGameOver(removeBody(addScore(Collect(s, otherBody), 1),
                                        otherBody))
          ELSE s

\* handlePair without the checkGameOver call that follows the removal.
handlePair_NoFinalCheck(s, pair) ==
  LET bodyA == pair[1]
      bodyB == pair[2]
      isBoxPartA == bodyA \in Range(box.boxParts)
      isBoxPartB == bodyB \in Range(box.boxParts)
      otherBody == IF isBoxPartA THEN bodyB ELSE bodyA
  IN IF ~isBoxPartA /\ ~isBoxPartB THEN s
     ELSE IF bodies[otherBody].isStatic THEN s
     ELSE IF isBodyInsideBox(otherBody)
          THEN removeBody(addScore(Collect(s, otherBody), 1), otherBody)
          ELSE s

\* handlePair that scores the other body and leaves it in the world.
handlePair_NoRemove(s, pair) ==
  LET bodyA == pair[1]
      bodyB == pair[2]
      isBoxPartA == bodyA \in Range(box.boxParts)
      isBoxPartB == bodyB \in Range(box.boxParts)
      otherBody == IF isBoxPartA THEN bodyB ELSE bodyA
  IN IF ~isBoxPartA /\ ~isBoxPartB THEN s
     ELSE IF bodies[otherBody].isStatic THEN s
     ELSE IF isBodyInsideBox(otherBody)
          THEN checkGameOver(addScore(Collect(s, otherBody), 1))
          ELSE s

\* Body of the loop over event.pairs in the collisionStart listener.
handlePair(s, pair) ==
  LET bodyA == pair[1]
      bodyB == pair[2]
      isBoxPartA == bodyA \in Range(box.boxParts)
      isBoxPartB == bodyB \in Range(box.boxParts)
      otherBody == IF isBoxPartA THEN bodyB ELSE bodyA
  IN IF ~isBoxPartA /\ ~isBoxPartB THEN s
     ELSE IF bodies[otherBody].isStatic THEN s
     ELSE IF isBodyInsideBox(otherBody)
          THEN checkGameOver(removeBody(addScore(Collect(s, otherBody), 1),
                                        otherBody))
          ELSE s

RECURSIVE handleCollision(_, _)
handleCollision(s, pairs) ==
  IF pairs = <<>> THEN s
  ELSE handleCollision(handlePair(s, Head(pairs)), Tail(pairs))

\* checkBody that scores the body and leaves it in the world.
checkBody_NoRemove(s, body) ==
  IF isBodyInBox(body)
  THEN addScore(Collect(s, body), 1)
  ELSE s

\* Body of the loop of checkBodiesInBox over the bodies listed at its start.
checkBody(s, body) ==
  IF isBodyInBox(body)
  THEN addScore(removeBody(Collect(s, body), body), 1)
  ELSE s

RECURSIVE checkBodies(_, _)
checkBodies(s, bodiesToCheck) ==
  IF bodiesToCheck = <<>> THEN s
  ELSE checkBodies(checkBody(s, Head(bodiesToCheck)), Tail(bodiesToCheck))

checkBodiesInBox(s) == checkBodies(s, NonStaticBodies(s.world))


\* ------------------------------------------------------------ BodyWrapper
Region(minX, minY, maxX, maxY) ==
  [min |-> [x |-> minX, y |-> minY], max |-> [x |-> maxX, y |-> maxY]]

\* wrapBody that goes on wrapping until the coordinate is within the bounds.
wrapBody_Loops(bounds, position) ==
  LET w == bounds.max.x - bounds.min.x
      h == bounds.max.y - bounds.min.y
      x1 == IF position.x < bounds.min.x
            THEN bounds.max.x - ((bounds.min.x - position.x) % w)
            ELSE IF position.x > bounds.max.x
                 THEN bounds.min.x + ((position.x - bounds.max.x) % w)
                 ELSE position.x
      y1 == IF position.y < bounds.min.y
            THEN bounds.max.y - ((bounds.min.y - position.y) % h)
            ELSE IF position.y > bounds.max.y
                 THEN bounds.min.y + ((position.y - bounds.max.y) % h)
                 ELSE position.y
  IN [x |-> x1, y |-> y1]

\* wrapBody that reflects a coordinate at the edge it has passed.
wrapBody_SameEdge(bounds, position) ==
  LET x1 == IF position.x < bounds.min.x
            THEN bounds.min.x + (bounds.min.x - position.x)
            ELSE IF position.x > bounds.max.x
                 THEN bounds.max.x - (position.x - bounds.max.x)
                 ELSE position.x
      y1 == IF position.y < bounds.min.y
            THEN bounds.min.y + (bounds.min.y - position.y)
            ELSE IF position.y > bounds.max.y
                 THEN bounds.max.y - (position.y - bounds.max.y)
                 ELSE position.y
  IN [x |-> x1, y |-> y1]

\* wrapBody that also moves a coordinate lying exactly on an edge.
wrapBody_WrapsEdges(bounds, position) ==
  LET x1 == IF position.x <= bounds.min.x
            THEN bounds.max.x - (bounds.min.x - position.x)
            ELSE IF position.x >= bounds.max.x
                 THEN bounds.min.x + (position.x - bounds.max.x)
                 ELSE position.x
      y1 == IF position.y <= bounds.min.y
            THEN bounds.max.y - (bounds.min.y - position.y)
            ELSE IF position.y >= bounds.max.y
                 THEN bounds.min.y + (position.y - bounds.max.y)
                 ELSE position.y
  IN [x |-> x1, y |-> y1]

\* The position wrapBody leaves the body at: the x axis first, then the y
\* axis, each with one setPosition that keeps the other coordinate.
wrapBody(bounds, position) ==
  LET x1 == IF position.x < bounds.min.x
            THEN bounds.max.x - (bounds.min.x - position.x)
            ELSE IF position.x > bounds.max.x
                 THEN bounds.min.x + (position.x - bounds.max.x)
                 ELSE position.x
      y1 == IF position.y < bounds.min.y
            THEN bounds.max.y - (bounds.min.y - position.y)
            ELSE IF position.y > bounds.max.y
                 THEN bounds.min.y + (position.y - bounds.max.y)
                 ELSE position.y
  IN [x |-> x1, y |-> y1]

\* ------------------------------------------------------------------ Init
FirstCreatedId == 11

\* InitialGameManager with a score field that starts at one.
InitialGameManager_ScoreOne ==
  [score |-> 1, attempts |-> 0, engine |-> FALSE,
   initialBodyCount |-> 0, isGameOver |-> FALSE,
   restartCallback |-> FALSE,
   scoreText |-> <<"Score: ", 1>>,
   attemptsText |-> <<"Attempts: ", 0>>,
   finalScoreText |-> <<>>, finalAttemptsText |-> <<>>,
   modalVisible |-> FALSE]

\* ---------------------------------------------------------------------
\* DebugControl
\* ---------------------------------------------------------------------

\* String(flag), as localStorage.setItem receives it.
String(flag) == IF flag THEN "true" ELSE "false"

\* localStorage.getItem("debugMode") === "true": the item is <<>> when
\* nothing is stored (getItem gives null), else <<value>>.
storedMode(storage) == storage = <<"true">>

\* A page with no DebugControl: no checkbox with the id "debugMode", the
\* renderer's debug options off, no mouse constraint in the world.
NoDebug(storage) ==
  [storage |-> storage, checkboxes |-> <<>>, controls |-> <<>>,
   options |-> FALSE, constraints |-> 0, renderMouse |-> FALSE]

InitialDebug == NoDebug(<<>>)

\* updateDebugMode that leaves the mouse constraint in the world when the
\* mode goes off.
updateDebugMode_NoRemove(d, c) ==
  LET flag == d.checkboxes[1]
  IN [d EXCEPT
        !.controls[c] =
          [isDebugMode |-> flag,
           mouseConstraint |-> IF flag THEN "added" ELSE @.mouseConstraint],
        !.options = flag,
        !.constraints = IF flag THEN @ + 1 ELSE @,
        !.renderMouse = @ \/ flag,
        !.storage = <<String(flag)>>]

\* updateDebugMode that does not save the mode.
updateDebugMode_NoSave(d, c) ==
  LET flag == d.checkboxes[1]
      had == d.controls[c].mouseConstraint
  IN [d EXCEPT
        !.controls[c] =
          [isDebugMode |-> flag,
           mouseConstraint |-> IF flag THEN "added"
                               ELSE IF had = "none" THEN "none"
                               ELSE "removed"],
        !.options = flag,
        !.constraints = IF flag THEN @ + 1
                        ELSE IF had = "added" THEN @ - 1 ELSE @,
        !.renderMouse = @ \/ flag]

\* DebugControl.updateDebugMode() of control c. Its checkbox is what
\* document.getElementById("debugMode") gave in the constructor: the first
\* element with that id. With the mode on a new mouse constraint is created
\* and added to the world; with it off the control's last one is removed
\* (removing it again changes nothing). No onChange callback is registered
\* in the sources.
updateDebugMode(d, c) ==
  LET flag == d.checkboxes[1]
      had == d.controls[c].mouseConstraint
  IN [d EXCEPT
        !.controls[c] =
          [isDebugMode |-> flag,
           mouseConstraint |-> IF flag THEN "added"
                               ELSE IF had = "none" THEN "none"
                               ELSE "removed"],
        !.options = flag,
        !.constraints = IF flag THEN @ + 1
                        ELSE IF had = "added" THEN @ - 1 ELSE @,
        !.renderMouse = @ \/ flag,
        !.storage = <<String(flag)>>]

\* updateDebugMode() of the controls c..Len(d.controls), in that order:
\* the change listeners of the shared checkbox.
RECURSIVE updateFrom(_, _)
updateFrom(d, c) ==
  IF c > Len(d.controls) THEN d
  ELSE updateFrom(updateDebugMode(d, c), c + 1)

\* new DebugControl(engine, render)
constructDebugControl(d) ==
  LET isDebugMode == storedMode(d.storage)
      appended == Append(d.checkboxes, FALSE)
      d1 == [d EXCEPT
               !.checkboxes = [appended EXCEPT ![1] = isDebugMode],
               !.controls = Append(@, [isDebugMode |-> isDebugMode,
                                       mouseConstraint |-> "none"])]
  IN updateDebugMode(d1, Len(d1.controls))

\* The GameManager's fields after its constructor, with the page's texts.
InitialGameManager ==
  [score |-> 0, attempts |-> 0, engine |-> FALSE,
   initialBodyCount |-> 0, isGameOver |-> FALSE,
   restartCallback |-> FALSE,
   scoreText |-> <<"Score: ", 0>>,
   attemptsText |-> <<"Attempts: ", 0>>,
   finalScoreText |-> <<>>, finalAttemptsText |-> <<>>,
   modalVisible |-> FALSE]

\* The page before any GameManager exists: the DOM alone.
NoGameManager ==
  [scoreText |-> <<>>, attemptsText |-> <<>>,
   finalScoreText |-> <<>>, finalAttemptsText |-> <<>>,
   modalVisible |-> FALSE]

\* getInstance that constructs a GameManager at every call.
getInstance_AlwaysNew ==
  [instance |-> instance + 1, gm |-> InitialGameManager]

\* GameManager.getInstance(): what GameManager.instance refers to after
\* the call, and that object's fields.
getInstance ==
  IF instance = 0
  THEN [instance |-> instance + 1, gm |-> InitialGameManager]
  ELSE [instance |-> instance, gm |-> gm]

getScore == gm.score

getAttempts == gm.attempts

InitScene ==
  LET W == CanvasWidth
      H == CanvasHeight
      all == ScreenWalls(W, H) \o BoxWalls(W, H) \o InitialShapes
  IN /\ bodies = [b \in 1..Len(all) |-> all[b]]
     /\ world = [i \in 1..Len(all) |-> i]
     /\ box = [width |-> W, height |-> H, boxParts |-> <<5, 6, 7>>,
               boxDimensions |-> BoxDimensions(W, H)]
     /\ nextId = FirstCreatedId
     /\ gm = InitialGameManager
     /\ phase = "idle"
     /\ collected = <<>>
     /\ gameOverShown = 0
     /\ callbackCalls = 0
     /\ wrapper = [bounds |-> Region(0, 0, W, H)]
     /\ instance = 1
     /\ forced = <<>>
     /\ callbackSaw = <<>>
     /\ lastCreationTime = 0
     /\ boundaryWalls = InitialBoundaryWalls

\* The scene on a first visit: nothing stored, no DebugControl yet.
Init == InitScene /\ debug = InitialDebug

\* Bodies no longer in the world nor held by the box are garbage.
Alive(w) == [b \in Range(w) \cup Range(box.boxParts) |-> bodies[b]]

\* A handler that leaves the set of bodies and the box alone, or only
\* removes bodies from the world.
FinishHandler(s) ==
  /\ Finish(s)
  /\ bodies' = Alive(s.world)
  /\ UNCHANGED <<box, nextId>>

\* ------------------------------------------- GameManager's public methods
\* A call of GameManager.getInstance() by some constructor of the page.
GetInstance ==
  /\ phase = "idle"
  /\ instance' = getInstance.instance
  /\ debug' = debug
  /\ boundaryWalls' = boundaryWalls
  /\ gm' = getInstance.gm
  /\ collected' = <<>>
  /\ gameOverShown' = 0
  /\ callbackCalls' = 0
  /\ forced' = <<>>
  /\ callbackSaw' = <<>>
  /\ lastCreationTime' = lastCreationTime
  /\ UNCHANGED <<bodies, world, box, nextId, phase, wrapper>>

InitialCounts == {0, NumShapes}

SetEngine ==
  /\ phase = "idle"
  /\ FinishHandler([Run EXCEPT !.gm.engine = TRUE])
  /\ UNCHANGED phase

SetRestartCallback ==
  /\ phase = "idle"
  /\ FinishHandler([Run EXCEPT !.gm.restartCallback = TRUE])
  /\ UNCHANGED phase

SetInitialBodyCount(count) ==
  /\ phase = "idle"
  /\ FinishHandler([Run EXCEPT !.gm.initialBodyCount = count])
  /\ UNCHANGED phase

AddScoreOp(points) ==
  /\ phase = "idle"
  /\ gm.score + points <= MaxScore
  /\ FinishHandler(addScore(Run, points))
  /\ UNCHANGED phase

AddAttemptOp(count) ==
  /\ phase = "idle"
  /\ gm.attempts + count <= MaxAttempts
  /\ FinishHandler(addAttempt(Run, count))
  /\ UNCHANGED phase

CheckGameOverOp ==
  /\ phase = "idle"
  /\ FinishHandler(checkGameOver(Run))
  /\ UNCHANGED phase

ResetScoreOp ==
  /\ phase = "idle"
  /\ FinishHandler(resetScore(Run))
  /\ UNCHANGED phase

ResetAttemptsOp ==
  /\ phase = "idle"
  /\ FinishHandler(resetAttempts(Run))
  /\ UNCHANGED phase

ResetGameOp ==
  /\ phase = "idle"
  /\ FinishHandler(resetGame(Run))
  /\ UNCHANGED phase

RestartButtonClick ==
  /\ phase = "idle"
  /\ FinishHandler(restartGame(Run))
  /\ UNCHANGED phase

\* ------------------------------------------------------ one Engine.update
\* Integration: the physics library moves every movable body of the world.
Integrate ==
  /\ phase = "idle"
  /\ \E to \in [Range(NonStaticBodies(world)) -> Points] :
       bodies' = [b \in DOMAIN bodies |->
                    IF b \in DOMAIN to
                    THEN [bodies[b] EXCEPT !.x = to[b].x, !.y = to[b].y]
                    ELSE bodies[b]]
  /\ phase' = "integrated"
  /\ collected' = <<>>
  /\ gameOverShown' = 0
  /\ callbackCalls' = 0
  /\ forced' = <<>>
  /\ callbackSaw' = <<>>
  /\ lastCreationTime' = lastCreationTime
  /\ UNCHANGED <<gm, world, box, nextId, wrapper, instance, debug, boundaryWalls>>

\* The collision pairs tried.  The first movable body of the world meets
\* the box's bottom wall (on either side of the pair), the box's left
\* wall or the screen's bottom wall; the second movable body meets the
\* box's bottom wall; two walls meet each other.
CollisionPairs ==
  LET m == NonStaticBodies(world)
      bottomBox == box.boxParts[1]
      leftBox == box.boxParts[2]
      bottomWall == boundaryWalls.walls[1]
  IN (IF Len(m) >= 1
      THEN { <<m[1], bottomBox>>, <<bottomBox, m[1]>>, <<m[1], leftBox>>,
             <<m[1], bottomWall>> }
      ELSE {})
     \cup (IF Len(m) >= 2 THEN { <<m[2], bottomBox>> } ELSE {})
     \cup { <<bottomBox, leftBox>>, <<bottomBox, bottomWall>> }

SamePair(p, q) == {p[1], p[2]} = {q[1], q[2]}

\* One event carries each overlapping pair once.
PairLists ==
  { ps \in UNION { [1..n -> CollisionPairs] : n \in 0..MaxPairs } :
      \A i, j \in 1..Len(ps) : i # j => ~SamePair(ps[i], ps[j]) }

\* The collisionStart listener registered by handleCollision.
CollisionStart ==
  /\ phase = "integrated"
  /\ \E pairs \in PairLists :
       LET s == handleCollision(Run, pairs)
       IN /\ s.gm.score <= MaxScore
          /\ FinishHandler(s)
  /\ phase' = "collided"

\* The afterUpdate listener registered by setupCollisionDetection.
AfterUpdate ==
  /\ phase \in {"integrated", "collided"}
  /\ LET s == checkBodiesInBox(Run)
     IN /\ s.gm.score <= MaxScore
        /\ FinishHandler(s)
  /\ phase' = "idle"

\* ----------------------------------------------------------- InputHandler
\* Matter.Query.point: a static rectangle is hit inside its outline, a
\* movable body at its centre.
Contains(b, p) ==
  IF bodies[b].isStatic
  THEN /\ 2 * p.x >= 2 * bodies[b].x - bodies[b].w
       /\ 2 * p.x <= 2 * bodies[b].x + bodies[b].w
       /\ 2 * p.y >= 2 * bodies[b].y - bodies[b].h
       /\ 2 * p.y <= 2 * bodies[b].y + bodies[b].h
  ELSE p.x = bodies[b].x /\ p.y = bodies[b].y

QueryPoint(w, p) == SelectSeq(w, LAMBDA b : Contains(b, p))

\* Matter.Body.applyForce(clickedBody, clickedBody.position, force): the
\* call is recorded; the motion it causes is the integration's.
applyForce(s, b) == [s EXCEPT !.forced = Append(s.forced, b)]

\* click listener that counts an attempt for a click on a static body too.
HandleClick_CountsStatic(mousePosition, ctrlKey) ==
  /\ phase = "idle"
  /\ LET hit == QueryPoint(world, mousePosition)
     IN IF hit # <<>>
        THEN IF bodies[hit[1]].isStatic
             THEN /\ gm.attempts + 1 <= MaxAttempts
                  /\ FinishHandler(addAttempt(Run, 1))
             ELSE /\ gm.attempts + 1 <= MaxAttempts
                  /\ FinishHandler(addAttempt(applyForce(Run, hit[1]), 1))
        ELSE IF ctrlKey
             THEN /\ nextId < FirstCreatedId + MaxCreated
                  /\ bodies' = [b \in DOMAIN bodies \cup {nextId} |->
                                  IF b = nextId THEN Movable(mousePosition)
                                  ELSE bodies[b]]
                  /\ nextId' = nextId + 1
                  /\ Finish([Run EXCEPT !.world = Append(world, nextId)])
                  /\ UNCHANGED box
             ELSE FinishHandler(Run)
  /\ UNCHANGED phase

\* click listener; the canvas is taken to sit at the window's origin.
HandleClick(mousePosition, ctrlKey) ==
  /\ phase = "idle"
  /\ LET hit == QueryPoint(world, mousePosition)
     IN IF hit # <<>>
        THEN IF bodies[hit[1]].isStatic
             THEN FinishHandler(Run)
             ELSE /\ gm.attempts + 1 <= MaxAttempts
                  /\ FinishHandler(addAttempt(applyForce(Run, hit[1]), 1))
        ELSE IF ctrlKey
             THEN /\ nextId < FirstCreatedId + MaxCreated
                  /\ bodies' = [b \in DOMAIN bodies \cup {nextId} |->
                                  IF b = nextId THEN Movable(mousePosition)
                                  ELSE bodies[b]]
                  /\ nextId' = nextId + 1
                  /\ Finish([Run EXCEPT !.world = Append(world, nextId)])
                  /\ UNCHANGED box
             ELSE FinishHandler(Run)
  /\ UNCHANGED phase

\* The right button's loop without its test of isStatic.
RECURSIVE removeNonStatic_RemovesAll(_, _)
removeNonStatic_RemovesAll(s, found) ==
  IF found = <<>> THEN s
  ELSE removeNonStatic_RemovesAll(removeBody(s, Head(found)), Tail(found))

\* The loop of the mousedown listener over the bodies under the pointer.
RECURSIVE removeNonStatic(_, _)
removeNonStatic(s, found) ==
  IF found = <<>> THEN s
  ELSE removeNonStatic(
         IF bodies[Head(found)].isStatic THEN s ELSE removeBody(s, Head(found)),
         Tail(found))

\* mousedown listener that evaluates the game-over condition after removing.
HandleMouseDown_Evaluates(button, p) ==
  /\ phase = "idle"
  /\ IF button = 2
     THEN FinishHandler(
            checkGameOver(removeNonStatic(Run, QueryPoint(world, p))))
     ELSE FinishHandler(Run)
  /\ UNCHANGED phase

\* mousedown listener: the right button removes the movable bodies under it.
HandleMouseDown(button, p) ==
  /\ phase = "idle"
  /\ IF button = 2
     THEN FinishHandler(removeNonStatic(Run, QueryPoint(world, p)))
     ELSE FinishHandler(Run)
  /\ UNCHANGED phase

\* The limit that lets every move create.
creationDue_Always(last, currentTime) == TRUE

\* The rate limit of the drag creation: nothing was created by a drag yet,
\* or the last such creation is at least 100 ms back on Date.now().
creationDue(last, currentTime) ==
  last = 0 \/ currentTime - last >= CreationInterval

\* mousemove listener at Date.now() = currentTime.  With a button held: the
\* right button removes the first body under the pointer when it is
\* movable; the left button with Ctrl creates a body at the pointer when
\* the rate limit allows it, and records the time.
HandleMouseMove(buttons, p, ctrlKey, currentTime) ==
  /\ phase = "idle"
  /\ LET button == IF buttons = 1 THEN "Left"
                   ELSE IF buttons = 4 THEN "Middle" ELSE "Right"
         hit == QueryPoint(world, p)
         s1 == IF buttons > 0 /\ button = "Right" /\ hit # <<>>
                  /\ ~bodies[hit[1]].isStatic
               THEN removeBody(Run, hit[1])
               ELSE Run
     IN IF buttons > 0 /\ button = "Left" /\ ctrlKey
           /\ creationDue(lastCreationTime, currentTime)
        THEN /\ nextId < FirstCreatedId + MaxDragged
             /\ bodies' = [b \in DOMAIN bodies \cup {nextId} |->
                             IF b = nextId THEN Movable(p) ELSE bodies[b]]
             /\ nextId' = nextId + 1
             /\ Finish([s1 EXCEPT !.world = Append(s1.world, nextId),
                                  !.lastCreationTime = currentTime])
             /\ UNCHANGED box
        ELSE FinishHandler(s1)
  /\ UNCHANGED phase

\* Values of Date.now() tried, in ms: 50, 100 and 200 ms after the first,
\* in any order (the clock of Date.now() can be set back).
Times == { 1000, 1050, 1100, 1200 }

\* Pointer moves tried: no button, left button, right button, and the left
\* button with Ctrl at each of the times.
MouseMoves ==
  { [buttons |-> 0, ctrlKey |-> FALSE, time |-> 1000],
    [buttons |-> 1, ctrlKey |-> FALSE, time |-> 1000],
    [buttons |-> 2, ctrlKey |-> FALSE, time |-> 1000] }
  \cup { [buttons |-> 1, ctrlKey |-> TRUE, time |-> t] : t \in Times }

\* keydown listener: Delete removes the first movable body of the world.
HandleKeyDown(key) ==
  /\ phase = "idle"
  /\ IF key = "Delete" /\ NonStaticBodies(world) # <<>>
     THEN FinishHandler(removeBody(Run, Head(NonStaticBodies(world))))
     ELSE FinishHandler(Run)
  /\ UNCHANGED phase

\* ------------------------------------------------------ BoundaryBox.resize
\* Canvas sizes the box is built for.
Canvases ==
  { [width |-> CanvasWidth, height |-> CanvasHeight],
    [width |-> 800 * Scale, height |-> 600 * Scale] }

RECURSIVE removeBodies(_, _)
removeBodies(w, parts) ==
  IF parts = <<>> THEN w
  ELSE removeBodies(SelectSeq(w, LAMBDA c : c # Head(parts)), Tail(parts))

\* resize: the parts held are removed from the world; createBoxParts then
\* pushes the three new walls onto boxParts, which still holds the old
\* ones, and adds the whole of boxParts to the world.
resize(width, height) ==
  LET created == BoxWalls(width, height)
      ids == [i \in 1..Len(created) |-> nextId + i - 1]
      removed == removeBodies(world, box.boxParts)
      parts == box.boxParts \o ids
  IN [box |-> [width |-> width, height |-> height, boxParts |-> parts,
               boxDimensions |-> BoxDimensions(width, height)],
      world |-> removed \o parts,
      bodies |-> [b \in Range(removed) \cup Range(parts) |->
                    IF b \in Range(ids) THEN created[b - nextId + 1]
                    ELSE bodies[b]],
      nextId |-> nextId + Len(created)]

Resize(width, height) ==
  /\ phase = "idle"
  /\ Len(box.boxParts) < 3 * (MaxResizes + 1)
  /\ LET r == resize(width, height)
     IN /\ box' = r.box
        /\ world' = r.world
        /\ bodies' = r.bodies
        /\ nextId' = r.nextId
  /\ collected' = <<>>
  /\ gameOverShown' = 0
  /\ callbackCalls' = 0
  /\ forced' = <<>>
  /\ callbackSaw' = <<>>
  /\ lastCreationTime' = lastCreationTime
  /\ UNCHANGED <<gm, phase, wrapper, instance, debug, boundaryWalls>>

\* ---------------------------------------------------- BoundaryWalls.resize
\* resize that appends the new walls to the ones held, as createBoxParts
\* does, and adds them all.
resizeWalls_KeepsOld(width, height) ==
  LET created == ScreenWalls(width, height)
      ids == [i \in 1..Len(created) |-> nextId + i - 1]
      removed == removeBodies(world, boundaryWalls.walls)
      held == boundaryWalls.walls \o ids
  IN [boundaryWalls |-> [width |-> width, height |-> height, walls |-> held],
      world |-> removed \o held,
      bodies |-> [b \in Range(removed) \cup Range(held)
                          \cup Range(box.boxParts) |->
                    IF b \in Range(ids) THEN created[b - nextId + 1]
                    ELSE bodies[b]],
      nextId |-> nextId + Len(created)]

\* BoundaryWalls.resize(width, height): the walls held are removed from the
\* world; createWalls then stores four new walls in place of the old array
\* and adds them to the world.
resizeWalls(width, height) ==
  LET created == ScreenWalls(width, height)
      ids == [i \in 1..Len(created) |-> nextId + i - 1]
      removed == removeBodies(world, boundaryWalls.walls)
  IN [boundaryWalls |-> [width |-> width, height |-> height, walls |-> ids],
      world |-> removed \o ids,
      bodies |-> [b \in Range(removed) \cup Range(ids)
                          \cup Range(box.boxParts) |->
                    IF b \in Range(ids) THEN created[b - nextId + 1]
                    ELSE bodies[b]],
      nextId |-> nextId + Len(created)]

\* The ids one run hands out at most: MaxCreated bodies, three box walls
\* and four screen walls per resize.
LastId == FirstCreatedId + MaxCreated + 7 * MaxResizes

ResizeWalls(width, height) ==
  /\ phase = "idle"
  /\ nextId + 4 <= LastId
  /\ LET r == resizeWalls(width, height)
     IN /\ boundaryWalls' = r.boundaryWalls
        /\ world' = r.world
        /\ bodies' = r.bodies
        /\ nextId' = r.nextId
  /\ collected' = <<>>
  /\ gameOverShown' = 0
  /\ callbackCalls' = 0
  /\ forced' = <<>>
  /\ callbackSaw' = <<>>
  /\ lastCreationTime' = lastCreationTime
  /\ UNCHANGED <<gm, box, phase, wrapper, instance, debug>>

\* ------------------------------------------------ BodyWrapper's methods
\* The body's position before the step, as wrapBody reads it.
PositionOf(b) == [x |-> bodies[b].x, y |-> bodies[b].y]

\* BodyWrapper.wrapBody(body) for a movable body of the world.
WrapBody(b) ==
  /\ phase = "idle"
  /\ b \in Range(NonStaticBodies(world))
  /\ LET q == wrapBody(wrapper.bounds, PositionOf(b))
     IN bodies' = [bodies EXCEPT ![b] = [@ EXCEPT !.x = q.x, !.y = q.y]]
  /\ collected' = <<>>
  /\ gameOverShown' = 0
  /\ callbackCalls' = 0
  /\ forced' = <<>>
  /\ callbackSaw' = <<>>
  /\ lastCreationTime' = lastCreationTime
  /\ UNCHANGED <<gm, world, box, nextId, phase, wrapper, instance, debug, boundaryWalls>>

\* setBounds that takes the new max corner and keeps the old min corner.
SetBounds_KeepsMin(bounds) ==
  /\ phase = "idle"
  /\ wrapper' = [wrapper EXCEPT !.bounds.max = bounds.max]
  /\ collected' = <<>>
  /\ gameOverShown' = 0
  /\ callbackCalls' = 0
  /\ forced' = <<>>
  /\ callbackSaw' = <<>>
  /\ lastCreationTime' = lastCreationTime
  /\ UNCHANGED <<gm, bodies, world, box, nextId, phase, instance, debug, boundaryWalls>>

\* BodyWrapper.setBounds(bounds)
SetBounds(bounds) ==
  /\ phase = "idle"
  /\ wrapper' = [wrapper EXCEPT !.bounds = bounds]
  /\ collected' = <<>>
  /\ gameOverShown' = 0
  /\ callbackCalls' = 0
  /\ forced' = <<>>
  /\ callbackSaw' = <<>>
  /\ lastCreationTime' = lastCreationTime
  /\ UNCHANGED <<gm, bodies, world, box, nextId, phase, instance, debug, boundaryWalls>>

\* Regions the wrapper is given, in px: the one of the scenario and one
\* whose corner is not the origin.
WrapRegions ==
  { Region(0, 0, 800 * Scale, 600 * Scale),
    Region(100 * Scale, 50 * Scale, 300 * Scale, 150 * Scale) }

\* The actions of the debug control leave the game and the bodies alone.
DebugStep(d) ==
  /\ debug' = d
  /\ collected' = <<>>
  /\ gameOverShown' = 0
  /\ callbackCalls' = 0
  /\ forced' = <<>>
  /\ callbackSaw' = <<>>
  /\ lastCreationTime' = lastCreationTime
  /\ UNCHANGED <<gm, bodies, world, box, nextId, phase, wrapper, instance,
               boundaryWalls>>

\* new DebugControl(engine, render) on the current page.
ConstructDebugControl ==
  /\ phase = "idle"
  /\ Len(debug.controls) < MaxControls
  /\ DebugStep(constructDebugControl(debug))

\* The user toggles the i-th checkbox with the id "debugMode": its checked
\* state flips and its change listeners run. Every control listens on the
\* first one; the later ones have no listener.
ToggleCheckbox(i) ==
  /\ phase = "idle"
  /\ i \in 1..Len(debug.checkboxes)
  /\ LET d1 == [debug EXCEPT !.checkboxes[i] = ~@]
     IN DebugStep(IF i = 1 THEN updateFrom(d1, 1) ELSE d1)

\* The page is loaded again: the document, the renderer and the world's
\* constraints start afresh and localStorage keeps its item.
ReloadPage ==
  /\ phase = "idle"
  /\ debug.controls # <<>>
  /\ DebugStep(NoDebug(debug.storage))

Next ==
  \/ SetEngine
  \/ SetRestartCallback
  \/ \E count \in InitialCounts : SetInitialBodyCount(count)
  \/ \E points \in 1..MaxPoints : AddScoreOp(points)
  \/ \E count \in 1..MaxPoints : AddAttemptOp(count)
  \/ CheckGameOverOp
  \/ ResetScoreOp
  \/ ResetAttemptsOp
  \/ ResetGameOp
  \/ RestartButtonClick
  \/ Integrate
  \/ CollisionStart
  \/ AfterUpdate
  \/ \E p \in ClickPoints, ctrlKey \in BOOLEAN : HandleClick(p, ctrlKey)
  \/ \E button \in {0, 2}, p \in ClickPoints : HandleMouseDown(button, p)
  \/ \E e \in MouseMoves, p \in ClickPoints :
       HandleMouseMove(e.buttons, p, e.ctrlKey, e.time)
  \/ \E key \in {"Delete", "a"} : HandleKeyDown(key)
  \/ \E canvas \in Canvases : Resize(canvas.width, canvas.height)
  \/ \E b \in DOMAIN bodies : WrapBody(b)
  \/ \E bounds \in WrapRegions : SetBounds(bounds)
  \/ GetInstance
  \/ \E canvas \in Canvases : ResizeWalls(canvas.width, canvas.height)
  \/ ConstructDebugControl
  \/ \E i \in 1..MaxControls : ToggleCheckbox(i)
  \/ ReloadPage

\* The whole program: every listener and every public method.
Spec == Init /\ [][Next]_vars

\* The game state on its own: GameManager's public methods and the input
\* listeners, with the simulation stopped (Engine.stop), so that no body
\* moves and the box collects nothing.
NextGame ==
  \/ SetEngine
  \/ SetRestartCallback
  \/ \E count \in InitialCounts : SetInitialBodyCount(count)
  \/ \E points \in 1..MaxPoints : AddScoreOp(points)
  \/ \E count \in 1..MaxPoints : AddAttemptOp(count)
  \/ CheckGameOverOp
  \/ ResetScoreOp
  \/ ResetAttemptsOp
  \/ ResetGameOp
  \/ RestartButtonClick
  \/ \E p \in ClickPoints, ctrlKey \in BOOLEAN : HandleClick(p, ctrlKey)
  \/ \E button \in {0, 2}, p \in ClickPoints : HandleMouseDown(button, p)
  \/ \E key \in {"Delete", "a"} : HandleKeyDown(key)

SpecGame == Init /\ [][NextGame]_vars

\* The debug control beside the game: pages that construct DebugControls,
\* the user toggling a checkbox, reloads of the page's debug side, and the
\* game's counters and Delete key, from every item localStorage can hold
\* under "debugMode" when the page opens.
StoredItems == { <<>>, <<"true">>, <<"false">> }

InitDebug == InitScene /\ \E item \in StoredItems : debug = NoDebug(item)

NextDebug ==
  \/ ConstructDebugControl
  \/ \E i \in 1..MaxControls : ToggleCheckbox(i)
  \/ ReloadPage
  \/ SetEngine
  \/ \E points \in 1..MaxPoints : AddScoreOp(points)
  \/ \E count \in 1..MaxPoints : AddAttemptOp(count)
  \/ \E key \in {"Delete", "a"} : HandleKeyDown(key)

SpecDebug == InitDebug /\ [][NextDebug]_vars

\* The collection zone at work: the simulation runs, the box collects, and
\* the page scores, evaluates and resets; the pointer is not used, so no
\* body is created and no attempt is counted.
NextZone ==
  \/ SetEngine
  \/ \E count \in InitialCounts : SetInitialBodyCount(count)
  \/ \E points \in 1..MaxPoints : AddScoreOp(points)
  \/ CheckGameOverOp
  \/ ResetScoreOp
  \/ ResetGameOp
  \/ RestartButtonClick
  \/ Integrate
  \/ CollisionStart
  \/ AfterUpdate
  \/ \E key \in {"Delete", "a"} : HandleKeyDown(key)

SpecZone == Init /\ [][NextZone]_vars

\* ------------------------------------------------- the session's start
\* The scene before anything has asked for the GameManager: the screen
\* walls and the initial shapes are in the world, the box is not built.
InitLazy ==
  LET W == CanvasWidth
      H == CanvasHeight
      all == ScreenWalls(W, H) \o InitialShapes
  IN /\ bodies = [b \in 1..Len(all) |-> all[b]]
     /\ world = [i \in 1..Len(all) |-> i]
     /\ box = [width |-> W, height |-> H, boxParts |-> <<>>,
               boxDimensions |-> BoxDimensions(W, H)]
     /\ nextId = Len(all) + 1
     /\ gm = NoGameManager
     /\ phase = "idle"
     /\ collected = <<>>
     /\ gameOverShown = 0
     /\ callbackCalls = 0
     /\ wrapper = [bounds |-> Region(0, 0, W, H)]
     /\ instance = 0
     /\ forced = <<>>
     /\ callbackSaw = <<>>
     /\ lastCreationTime = 0
     /\ boundaryWalls = InitialBoundaryWalls
     /\ debug = InitialDebug

\* Every caller reaches the GameManager through getInstance, so its
\* methods and the listeners that use it run once it exists.
NextSession ==
  \/ GetInstance
  \/ instance # 0 /\ SetEngine
  \/ instance # 0 /\ SetRestartCallback
  \/ instance # 0 /\ \E count \in InitialCounts : SetInitialBodyCount(count)
  \/ instance # 0 /\ \E points \in 1..MaxPoints : AddScoreOp(points)
  \/ instance # 0 /\ \E count \in 1..MaxPoints : AddAttemptOp(count)
  \/ instance # 0 /\ CheckGameOverOp
  \/ instance # 0 /\ ResetGameOp
  \/ instance # 0 /\ RestartButtonClick
  \/ instance # 0 /\ \E key \in {"Delete", "a"} : HandleKeyDown(key)

SpecSession == InitLazy /\ [][NextSession]_vars

\* ---------------------------------------------------- resizing the box
\* The box is resized while the simulation runs.
NextResize ==
  \/ \E canvas \in Canvases : Resize(canvas.width, canvas.height)
  \/ Integrate
  \/ CollisionStart
  \/ AfterUpdate

SpecResize == Init /\ [][NextResize]_vars

\* The window is resized: the screen walls and the box are rebuilt, in any
\* order and for either canvas, while the user removes shapes.
NextWalls ==
  \/ \E canvas \in Canvases : ResizeWalls(canvas.width, canvas.height)
  \/ \E canvas \in Canvases : Resize(canvas.width, canvas.height)
  \/ \E key \in {"Delete", "a"} : HandleKeyDown(key)

SpecWalls == Init /\ [][NextWalls]_vars

\* ---------------------------------------------------- wrapping one body
\* Coordinates tried on one axis, for an interval lo..hi: more than one
\* width below, exactly one width below, 10 px below, on the lower edge,
\* in the middle, on the upper edge, and the same above.
AxisSamples(lo, hi) ==
  { lo - (hi - lo) - 10 * Scale, lo - (hi - lo), lo - 10 * Scale, lo,
    (lo + hi) \div 2,
    hi, hi + 10 * Scale, hi + (hi - lo), hi + (hi - lo) + 10 * Scale }

\* The scene with one movable body, anywhere in or around the bounds.
InitWrap ==
  \E R \in WrapRegions :
    \E px \in AxisSamples(R.min.x, R.max.x),
       py \in AxisSamples(R.min.y, R.max.y) :
      LET W == CanvasWidth
          H == CanvasHeight
          walls == ScreenWalls(W, H) \o BoxWalls(W, H)
      IN /\ bodies = [b \in (1..Len(walls)) \cup {FirstCreatedId} |->
                        IF b = FirstCreatedId
                        THEN Movable([x |-> px, y |-> py])
                        ELSE walls[b]]
         /\ world = [i \in 1..Len(walls) |-> i] \o <<FirstCreatedId>>
         /\ box = [width |-> W, height |-> H, boxParts |-> <<5, 6, 7>>,
                   boxDimensions |-> BoxDimensions(W, H)]
         /\ nextId = FirstCreatedId + 1
         /\ gm = InitialGameManager
         /\ phase = "idle"
         /\ collected = <<>>
         /\ gameOverShown = 0
         /\ callbackCalls = 0
         /\ wrapper = [bounds |-> R]
         /\ instance = 1
         /\ forced = <<>>
         /\ callbackSaw = <<>>
         /\ lastCreationTime = 0
         /\ boundaryWalls = InitialBoundaryWalls
         /\ debug = InitialDebug

NextWrap ==
  \/ \E b \in DOMAIN bodies : WrapBody(b)
  \/ \E bounds \in WrapRegions : SetBounds(bounds)

SpecWrap == InitWrap /\ [][NextWrap]_vars

\* ------------------------------------------------- one body near the box
\* Where the body's centre is, relative to the box's top-left corner: left
\* of the box, on its left edge, just inside, well inside, just inside the
\* right edge, on the right edge, right of the box; and the same from top
\* to bottom, with the inset line of the polling path and the rows 50, 60
\* and 110 px below the top edge.
XOffsets ==
  { 0 - Scale, 0, 1, 50 * Scale, BoxA_width - 1, BoxA_width,
    BoxA_width + Scale }

YOffsets ==
  { 0 - Scale, 0, 1, 50 * Scale, 60 * Scale, SettledInset, SettledInset + 1,
    110 * Scale, BoxA_height - 1, BoxA_height, BoxA_height + Scale }

\* The page is wired (setEngine, setInitialBodyCount), the initial shapes
\* are gone, one body was created, and Engine.update has just moved it.
InitProbe ==
  \E canvas \in Canvases, dx \in XOffsets, dy \in YOffsets,
     count \in InitialCounts :
    LET W == canvas.width
        H == canvas.height
        walls == ScreenWalls(W, H) \o BoxWalls(W, H)
        R == BoxDimensions(W, H)
        probe == Movable([x |-> R.x + dx, y |-> R.y + dy])
    IN /\ bodies = [b \in (1..Len(walls)) \cup {FirstCreatedId} |->
                      IF b = FirstCreatedId THEN probe ELSE walls[b]]
       /\ world = [i \in 1..Len(walls) |-> i] \o <<FirstCreatedId>>
       /\ box = [width |-> W, height |-> H, boxParts |-> <<5, 6, 7>>,
                 boxDimensions |-> R]
       /\ nextId = FirstCreatedId + 1
       /\ gm = [InitialGameManager EXCEPT !.engine = TRUE,
                                          !.initialBodyCount = count]
       /\ phase = "integrated"
       /\ collected = <<>>
       /\ gameOverShown = 0
       /\ callbackCalls = 0
       /\ wrapper = [bounds |-> Region(0, 0, W, H)]
       /\ instance = 1
       /\ forced = <<>>
       /\ callbackSaw = <<>>
       /\ lastCreationTime = 0
       /\ boundaryWalls = InitialBoundaryWalls
       /\ debug = InitialDebug

NextTick ==
  \/ Integrate
  \/ CollisionStart
  \/ AfterUpdate

SpecProbe == InitProbe /\ [][NextTick]_vars

\* ------------------------------------------------- the game as it runs
\* The page once set up (setEngine and setInitialBodyCount have been called
\* with the scene's three shapes): the runner's ticks and the listeners
\* that remove bodies (the Delete key, the right button pressed or dragged).
\* Nothing here calls addScore or checkGameOver but the box's two
\* collection paths. The runner calls Engine.update on every animation
\* frame, so a tick that can be taken is taken in the end; the user owes
\* the page no input.
InitPlaying ==
  LET W == CanvasWidth
      H == CanvasHeight
      all == ScreenWalls(W, H) \o BoxWalls(W, H) \o InitialShapes
  IN /\ bodies = [b \in 1..Len(all) |-> all[b]]
     /\ world = [i \in 1..Len(all) |-> i]
     /\ box = [width |-> W, height |-> H, boxParts |-> <<5, 6, 7>>,
               boxDimensions |-> BoxDimensions(W, H)]
     /\ nextId = FirstCreatedId
     /\ gm = [InitialGameManager EXCEPT !.engine = TRUE,
                                        !.initialBodyCount = NumShapes]
     /\ phase = "idle"
     /\ collected = <<>>
     /\ gameOverShown = 0
     /\ callbackCalls = 0
     /\ wrapper = [bounds |-> Region(0, 0, W, H)]
     /\ instance = 1
     /\ forced = <<>>
     /\ callbackSaw = <<>>
     /\ lastCreationTime = 0
     /\ boundaryWalls = InitialBoundaryWalls
     /\ debug = InitialDebug

NextRemoval ==
  \/ Integrate
  \/ CollisionStart
  \/ AfterUpdate
  \/ \E button \in {0, 2}, p \in ClickPoints : HandleMouseDown(button, p)
  \/ \E e \in { m \in MouseMoves : m.buttons # 1 }, p \in ClickPoints :
       HandleMouseMove(e.buttons, p, e.ctrlKey, e.time)
  \/ \E key \in {"Delete", "a"} : HandleKeyDown(key)

SpecRemoval == InitPlaying /\ [][NextRemoval]_vars /\ WF_vars(NextTick)

\* The pointer and the keyboard on a scene at rest: the page is set up and
\* earlier ticks have left each shape on a sample point the box does not
\* collect from, left of the box or on its left edge, so that several
\* shapes can lie under the pointer. The listeners push, remove and create
\* bodies.
RestPoints == { Pt(650, 420), Pt(700, 480) }

InitPointer ==
  \E at \in [1..NumShapes -> RestPoints] :
    LET W == CanvasWidth
        H == CanvasHeight
        all == ScreenWalls(W, H) \o BoxWalls(W, H)
                 \o [i \in 1..NumShapes |-> Movable(at[i])]
    IN /\ bodies = [b \in 1..Len(all) |-> all[b]]
       /\ world = [i \in 1..Len(all) |-> i]
       /\ box = [width |-> W, height |-> H, boxParts |-> <<5, 6, 7>>,
                 boxDimensions |-> BoxDimensions(W, H)]
       /\ nextId = FirstCreatedId
       /\ gm = [InitialGameManager EXCEPT !.engine = TRUE,
                                          !.initialBodyCount = NumShapes]
       /\ phase = "idle"
       /\ collected = <<>>
       /\ gameOverShown = 0
       /\ callbackCalls = 0
       /\ wrapper = [bounds |-> Region(0, 0, W, H)]
       /\ instance = 1
       /\ forced = <<>>
       /\ callbackSaw = <<>>
       /\ lastCreationTime = 0
       /\ boundaryWalls = InitialBoundaryWalls
       /\ debug = InitialDebug

NextPointer ==
  \/ \E p \in ClickPoints, ctrlKey \in BOOLEAN : HandleClick(p, ctrlKey)
  \/ \E button \in {0, 2}, p \in ClickPoints : HandleMouseDown(button, p)
  \/ \E e \in { m \in MouseMoves : m.time = 1000 }, p \in ClickPoints :
       HandleMouseMove(e.buttons, p, e.ctrlKey, e.time)
  \/ \E key \in {"Delete", "a"} : HandleKeyDown(key)

SpecPointer == InitPointer /\ [][NextPointer]_vars

\* Creating bodies: the pointer is dragged and clicked with Ctrl at the
\* times tried.
NextDrag ==
  \/ \E e \in MouseMoves, p \in ClickPoints :
       HandleMouseMove(e.buttons, p, e.ctrlKey, e.time)
  \/ \E p \in ClickPoints : HandleClick(p, TRUE)

SpecDrag == Init /\ [][NextDrag]_vars


\* ================================================================ claims
NonStaticSet(w) == Range(NonStaticBodies(w))

\* The movable bodies of the world after the step.
NonStaticSetAfter == { b \in Range(world') : ~bodies'[b].isStatic }

IsCollisionStartStep == phase = "integrated" /\ phase' = "collided"

IsAfterUpdateStep == phase \in {"integrated", "collided"} /\ phase' = "idle"

\* C1: the game-over flag goes from false to true only in a step that ran
\* the evaluation with the engine set, an initial count above zero and no
\* movable body left in the world; the evaluation notifies once.  With an
\* initial count of zero the flag never becomes true.
C1_GameOverOnlyByEvaluation ==
  [][ (~gm.isGameOver /\ gm'.isGameOver) =>
        /\ gm.engine /\ gm'.engine
        /\ gm.initialBodyCount > 0
        /\ gm'.initialBodyCount = gm.initialBodyCount
        /\ NonStaticSetAfter = {}
        /\ gameOverShown' = 1 ]_vars

C1_Witness ==
  /\ gm.isGameOver
  /\ gameOverShown = 1
  /\ gm.engine
  /\ gm.initialBodyCount > 0
  /\ NonStaticSet(world) = {}

\* C2: with the engine set and an initial count of three, an addScore call
\* made while movable bodies remain (the 1st and 2nd removal) does not
\* notify game over; the call made when none remains (the 3rd) makes the
\* transition and notifies exactly once; a call made when the game is
\* already over (the 4th) notifies nothing and leaves the game over.
C2_GameOverFiresOnce ==
  [][ \A points \in 1..MaxPoints :
        (AddScoreOp(points) /\ gm.engine /\ gm.initialBodyCount = NumShapes) =>
          /\ (NonStaticSet(world) # {} =>
                gameOverShown' = 0 /\ gm'.isGameOver = gm.isGameOver)
          /\ (NonStaticSet(world) = {} /\ ~gm.isGameOver =>
                gameOverShown' = 1 /\ gm'.isGameOver /\ gm'.modalVisible)
          /\ (gm.isGameOver => gameOverShown' = 0 /\ gm'.isGameOver) ]_vars

\* The 4th call has been made: the modal was filled at score 3, the score is
\* 4 now, and the last handler has notified nothing.
C2_Witness ==
  /\ gm.engine
  /\ gm.initialBodyCount = NumShapes
  /\ nextId = FirstCreatedId
  /\ NonStaticSet(world) = {}
  /\ gm.isGameOver
  /\ gm.finalScoreText = <<"Final Score: ", 3>>
  /\ gm.score = 4
  /\ gameOverShown = 0

\* C3: every body the box collects is scored exactly once: no body is
\* scored twice by one handler.
C3_CollectedExactlyOnce ==
  \A i, j \in 1..Len(collected) : collected[i] = collected[j] => i = j

\* C4: one run of the polling pass removes exactly the movable bodies of
\* the world whose centre is in the settled zone, scores each of them once
\* with one point, and leaves every other body in the world.
C4_PollCollectsSettled ==
  [][ IsAfterUpdateStep =>
        LET settled == { b \in NonStaticSet(world) : isBodyInBox(b) }
        IN /\ Range(world') = Range(world) \ settled
           /\ Range(collected') = settled
           /\ Len(collected') = Cardinality(settled)
           /\ gm'.score = gm.score + Cardinality(settled) ]_vars

\* The polling pass has just collected two bodies in one run.
C4_Witness ==
  /\ phase = "idle"
  /\ Len(collected) = 2
  /\ NonStaticSet(world) # {}

\* C5: for a pair of the collisionStart event, the other body is removed and
\* scored if and only if a side of the pair is a box part, the other side is
\* movable and its centre is strictly inside the box; otherwise the pair
\* changes nothing.  The side the box part is on does not matter.
C5_CollisionPathIff ==
  phase = "integrated" =>
    \A pair \in CollisionPairs :
      LET r == handlePair(Run, pair)
          parts == Range(box.boxParts)
          others == { b \in {pair[1], pair[2]} :
                        /\ b \notin parts
                        /\ ({pair[1], pair[2]} \ {b}) \subseteq parts
                        /\ ~bodies[b].isStatic
                        /\ isBodyInsideBox(b) }
      IN IF others # {}
         THEN /\ Range(r.world) = Range(world) \ others
              /\ Range(r.got) = others
              /\ r.gm.score = gm.score + 1
         ELSE r = Run

\* The collisionStart listener has just collected one body.
C5_Witness ==
  /\ phase = "collided"
  /\ Len(collected) = 1
  /\ gm.score = 1

\* C6: in state Playing, addScore(n) adds exactly n to the score, leaves
\* attempts and the initial count alone, and then is in GameOver exactly if,
\* at that moment, the engine is set, no movable body is in the world and
\* the initial count is above zero.
C6_AddScoreEffect ==
  [][ \A points \in 1..MaxPoints :
        (AddScoreOp(points) /\ ~gm.isGameOver) =>
          /\ gm'.score = gm.score + points
          /\ gm'.attempts = gm.attempts
          /\ gm'.initialBodyCount = gm.initialBodyCount
          /\ gm'.isGameOver =
               (gm.engine /\ NonStaticSet(world) = {} /\ gm.initialBodyCount > 0)
          /\ world' = world ]_vars

\* addScore(2) was called with the scene untouched.
C6_Witness ==
  /\ gm.score = 2
  /\ ~gm.isGameOver
  /\ gm.attempts = 1
  /\ Len(NonStaticBodies(world)) = NumShapes
  /\ nextId = FirstCreatedId

\* C7: while the game is over, the score does not change unless it is reset.
C7_NoScoreInGameOver ==
  [][ (gm.isGameOver /\ gm'.score # gm.score) => gm'.score = 0 ]_vars

C9_ResetGame ==
  [][ ResetGameOp =>
        /\ gm'.score = 0
        /\ gm'.attempts = 0
        /\ ~gm'.isGameOver
        /\ gm'.initialBodyCount = gm.initialBodyCount
        /\ gm'.engine = gm.engine
        /\ gm'.restartCallback = gm.restartCallback ]_vars

\* resetGame was called in GameOver: the modal is still up, the game is on.
C9_Witness ==
  /\ gm.modalVisible
  /\ ~gm.isGameOver
  /\ gm.score = 0
  /\ gm.attempts = 0
  /\ gm.initialBodyCount > 0
  /\ gm.engine
  /\ gm.restartCallback

\* C10 as stated: every reset, public resetGame and restart button alike,
\* calls the registered callback exactly once, and nothing without one.
C10_EveryResetCallsCallback ==
  [][ (ResetGameOp \/ RestartButtonClick) =>
        callbackCalls' = (IF gm.restartCallback THEN 1 ELSE 0) ]_vars

\* C10 amended: the restart button calls the registered callback exactly
\* once and nothing without one; the public resetGame never calls it.
C10_RestartCallsCallback ==
  [][ /\ (RestartButtonClick =>
            callbackCalls' = (IF gm.restartCallback THEN 1 ELSE 0))
      /\ (ResetGameOp => callbackCalls' = 0) ]_vars

\* The restart button was clicked with a callback registered, after a game.
C10_Witness ==
  /\ callbackCalls = 1
  /\ gm.restartCallback
  /\ gm.score = 0
  /\ ~gm.isGameOver
  /\ NonStaticSet(world) = {}

\* C11: addAttempt(n), in Playing or in GameOver, adds exactly n to the
\* attempts and leaves the score, the game-over flag, the initial count and
\* every body alone; it notifies no game over, even with the engine set, an
\* initial count above zero and no movable body in the world.
C11_AddAttemptEffect ==
  [][ \A count \in 1..MaxPoints :
        AddAttemptOp(count) =>
          /\ gm'.attempts = gm.attempts + count
          /\ gm'.attemptsText = <<"Attempts: ", gm.attempts + count>>
          /\ gm'.score = gm.score
          /\ gm'.isGameOver = gm.isGameOver
          /\ gm'.initialBodyCount = gm.initialBodyCount
          /\ gameOverShown' = 0
          /\ world' = world
          /\ \A b \in Range(world) : bodies'[b] = bodies[b] ]_vars

\* A game ended with no attempt made and was reset by resetGame (the modal
\* is still up); addAttempt(2) was then called with the engine set, an
\* initial count above zero and no movable body: the game is still on.
C11_Witness ==
  /\ gm.modalVisible
  /\ gm.finalAttemptsText = <<"Total Attempts: ", 0, "Infinity">>
  /\ ~gm.isGameOver
  /\ gm.attempts = 2
  /\ gm.engine
  /\ gm.initialBodyCount > 0
  /\ NonStaticSet(world) = {}
  /\ nextId = FirstCreatedId

GoalMin == [x |-> box.boxDimensions.x, y |-> box.boxDimensions.y]

GoalMax ==
  [x |-> box.boxDimensions.x + box.boxDimensions.width,
   y |-> box.boxDimensions.y + box.boxDimensions.height]

StrictlyInside(b) ==
  /\ GoalMin.x < bodies[b].x /\ bodies[b].x < GoalMax.x
  /\ GoalMin.y < bodies[b].y /\ bodies[b].y < GoalMax.y

OnEdge(b) ==
  \/ bodies[b].x \in {GoalMin.x, GoalMax.x}
  \/ bodies[b].y \in {GoalMin.y, GoalMax.y}

Outside(b) ==
  \/ bodies[b].x < GoalMin.x \/ bodies[b].x > GoalMax.x
  \/ bodies[b].y < GoalMin.y \/ bodies[b].y > GoalMax.y

\* C13: the strict containment test is true for a centre strictly inside
\* the goal region, and false for a centre on any of the four edge lines or
\* outside the region; the collision path collects accordingly.
C13_StrictContainment ==
  \A b \in NonStaticSet(world) :
    LET hit == handlePair(Run, <<b, box.boxParts[1]>>)
    IN /\ StrictlyInside(b) => (isBodyInsideBox(b) /\ hit.got = <<b>>)
       /\ (OnEdge(b) \/ Outside(b)) => (~isBodyInsideBox(b) /\ hit = Run)

\* The collisionStart listener has run with the body's centre on the
\* region's left edge, between its top and its bottom: the body is still
\* in the world.
C13_Witness ==
  /\ phase = "collided"
  /\ \E b \in NonStaticSet(world) :
       /\ bodies[b].x = GoalMin.x
       /\ GoalMin.y < bodies[b].y /\ bodies[b].y < GoalMax.y

\* C14: with the goal region x in 700..880, y in 370..510, a movable body
\* centred at (750, 480) is collected by the polling pass; one centred at
\* (750, 420) is collected by the collision listener for a pair with any
\* box wall, on either side of the pair, and would not be by the polling
\* pass; one at x = 750 inside the region, which no collision has removed,
\* is left in the world by the polling pass exactly if its y is at most
\* 455, as is the case for (750, 430).
C14_GoalBoxScenario ==
  [][ (GoalMin = Pt(700, 370) /\ GoalMax = Pt(880, 510)) =>
        \A b \in NonStaticSet(world) :
          /\ (IsAfterUpdateStep /\ bodies[b] = Movable(Pt(750, 480))) =>
                (b \notin Range(world') /\ b \in Range(collected'))
          /\ (phase = "integrated" /\ bodies[b] = Movable(Pt(750, 420))) =>
                /\ ~isBodyInBox(b)
                /\ \A part \in Range(box.boxParts) :
                     /\ handlePair(Run, <<b, part>>).got = <<b>>
                     /\ handlePair(Run, <<part, b>>).got = <<b>>
          /\ (/\ IsAfterUpdateStep
              /\ bodies[b].x = 750 * Scale
              /\ GoalMin.y < bodies[b].y /\ bodies[b].y < GoalMax.y) =>
                /\ (b \in Range(world')) = (bodies[b].y <= 455 * Scale)
                /\ (b \in Range(collected')) = (bodies[b].y > 455 * Scale)
                /\ gm'.score =
                     gm.score + (IF bodies[b].y > 455 * Scale THEN 1 ELSE 0)
    ]_vars

\* The polling pass has run with the body at (750, 430) and has left it.
C14_Witness ==
  /\ phase = "idle"
  /\ GoalMin = Pt(700, 370)
  /\ collected = <<>>
  /\ gm.score = 0
  /\ \E b \in NonStaticSet(world) : bodies[b] = Movable(Pt(750, 430))

\* C15: wrapBody treats each axis on its own: a coordinate below the
\* bounds' min becomes max - (min - coordinate), one above the max becomes
\* min + (coordinate - max), one within min..max is unchanged, whatever
\* happens on the other axis; with bounds (0,0)-(800,600) the position
\* (-10, 300) becomes (790, 300).
C15_WrapPerAxis ==
  [][ \A b \in DOMAIN bodies :
        WrapBody(b) =>
          LET R == wrapper.bounds
              P == PositionOf(b)
          IN /\ (P.x < R.min.x => bodies'[b].x = R.max.x - (R.min.x - P.x))
             /\ (P.x > R.max.x => bodies'[b].x = R.min.x + (P.x - R.max.x))
             /\ (R.min.x <= P.x /\ P.x <= R.max.x => bodies'[b].x = P.x)
             /\ (P.y < R.min.y => bodies'[b].y = R.max.y - (R.min.y - P.y))
             /\ (P.y > R.max.y => bodies'[b].y = R.min.y + (P.y - R.max.y))
             /\ (R.min.y <= P.y /\ P.y <= R.max.y => bodies'[b].y = P.y)
             /\ (R = Region(0, 0, 800 * Scale, 600 * Scale) /\ P = Pt(0 - 10, 300)
                   => bodies'[b] = Movable(Pt(790, 300))) ]_vars

\* The body is at (790, 300) in the bounds (0,0)-(800,600): no initial
\* position, so wrapBody has put it there, as it does from (-10, 300).
C15_Witness ==
  /\ wrapper.bounds = Region(0, 0, 800 * Scale, 600 * Scale)
  /\ \E b \in NonStaticSet(world) : bodies[b] = Movable(Pt(790, 300))

InBounds(R, P) ==
  /\ R.min.x <= P.x /\ P.x <= R.max.x
  /\ R.min.y <= P.y /\ P.y <= R.max.y

\* At most one width of the bounds outside them, on each axis.
WithinOneWidth(R, P) ==
  /\ R.min.x - (R.max.x - R.min.x) <= P.x
  /\ P.x <= R.max.x + (R.max.x - R.min.x)
  /\ R.min.y - (R.max.y - R.min.y) <= P.y
  /\ P.y <= R.max.y + (R.max.y - R.min.y)

\* C16: wrapBody applied to a position at most one width outside the
\* bounds on each axis leaves the body within the bounds, at a position a
\* second wrapBody does not move.
C16_WrapIdempotent ==
  [][ \A b \in DOMAIN bodies :
        (WrapBody(b) /\ WithinOneWidth(wrapper.bounds, PositionOf(b))) =>
          LET Q == [x |-> bodies'[b].x, y |-> bodies'[b].y]
          IN /\ InBounds(wrapper.bounds, Q)
             /\ wrapBody(wrapper.bounds, Q) = Q ]_vars

\* The body is at (10, 590) in the bounds (0,0)-(800,600): no initial
\* position, so wrapBody has put it there, as it does from (810, -10) with
\* a wrap on both axes.
C16_Witness ==
  /\ wrapper.bounds = Region(0, 0, 800 * Scale, 600 * Scale)
  /\ \E b \in NonStaticSet(world) : bodies[b] = Movable(Pt(10, 590))

\* C17: after resize(width, height) no part the box held before the call is
\* in the world; the box holds exactly three parts, all new, all in the
\* world, shaped as createBoxParts shapes them for the new size; the goal
\* region is the one computed from the new size; every other body of the
\* world is still there, unchanged, and nothing else was added.
C17_ResizeRebuildsWalls ==
  [][ \A canvas \in Canvases :
        Resize(canvas.width, canvas.height) =>
          LET owned == Range(box.boxParts)
              held == Range(box'.boxParts)
          IN /\ owned \cap Range(world') = {}
             /\ Cardinality(held) = 3
             /\ held \cap owned = {}
             /\ held \subseteq Range(world')
             /\ { bodies'[b] : b \in held } =
                  Range(BoxWalls(canvas.width, canvas.height))
             /\ box'.boxDimensions =
                  BoxDimensions(canvas.width, canvas.height)
             /\ Range(world') \ held = Range(world) \ owned
             /\ \A b \in Range(world) \ owned : bodies'[b] = bodies[b]
    ]_vars

C19_Singleton ==
  [][ /\ instance' \in {0, 1}
      /\ (instance = 0 /\ GetInstance =>
            instance' = 1 /\ gm' = InitialGameManager)
      /\ (instance # 0 => instance' = instance)
      /\ (instance # 0 /\ GetInstance => gm' = gm)
      /\ (instance # 0 /\ (ResetGameOp \/ RestartButtonClick) =>
            /\ gm'.score = 0
            /\ gm'.attempts = 0
            /\ ~gm'.isGameOver
            /\ gm'.engine = gm.engine
            /\ gm'.initialBodyCount = gm.initialBodyCount
            /\ gm'.restartCallback = gm.restartCallback) ]_vars

\* A game was played to its end on the one GameManager and reset there.
C19_Witness ==
  /\ instance = 1
  /\ gm.finalScoreText = <<"Final Score: ", MaxScore>>
  /\ gm.engine
  /\ gm.initialBodyCount = NumShapes
  /\ gm.score = 0
  /\ gm.attempts = 0
  /\ ~gm.isGameOver

\* The GameManager exists and none of setEngine, setInitialBodyCount,
\* addScore and addAttempt has had an effect on it.
Uninitialized ==
  /\ instance # 0
  /\ ~gm.engine
  /\ gm.initialBodyCount = 0
  /\ getScore = 0
  /\ getAttempts = 0
  /\ ~gm.isGameOver

\* C20: right after its construction the GameManager answers getScore()
\* with 0 and getAttempts() with 0 and is in Playing, and it still does
\* after any calls other than setEngine, setInitialBodyCount, addScore and
\* addAttempt.
C20_DefaultsBeforeInit ==
  [][ /\ (instance = 0 /\ instance' # 0 => Uninitialized')
      /\ (/\ Uninitialized
          /\ \/ GetInstance
             \/ SetRestartCallback
             \/ CheckGameOverOp
             \/ ResetGameOp
             \/ RestartButtonClick
             \/ \E key \in {"Delete", "a"} : HandleKeyDown(key)
          => Uninitialized') ]_vars

\* Nothing has initialised the GameManager, every movable body has been
\* deleted and a restart callback is registered: the defaults still stand.
C20_Witness ==
  /\ Uninitialized
  /\ gm.restartCallback
  /\ NonStaticSet(world) = {}

\* C21: with the engine reference unset, checkGameOver changes nothing and
\* notifies nothing, and addScore(n) adds n to the score and leaves the
\* game-over flag as it is, whatever the initial count and the world hold.
C21_NoEngineNoEvaluation ==
  [][ ~gm.engine =>
        /\ (CheckGameOverOp =>
              gm' = gm /\ world' = world /\ gameOverShown' = 0)
        /\ \A points \in 1..MaxPoints :
             AddScoreOp(points) =>
               /\ gm'.score = gm.score + points
               /\ gm'.isGameOver = gm.isGameOver
               /\ gm'.modalVisible = gm.modalVisible
               /\ gameOverShown' = 0 ]_vars

\* No engine reference, an initial count above zero, no movable body left,
\* points scored: the game has never been over.
C21_Witness ==
  /\ ~gm.engine
  /\ gm.initialBodyCount > 0
  /\ NonStaticSet(world) = {}
  /\ gm.score = MaxScore
  /\ ~gm.isGameOver
  /\ gm.finalScoreText = <<>>

\* C22: a collisionStart listener or a polling pass that collects a body
\* and leaves no movable body in the world, with the engine set and an
\* initial count above zero, ends with the game over, notified once.
C22_LastCollectionEndsGame ==
  [][ (/\ IsCollisionStartStep \/ IsAfterUpdateStep
       /\ collected' # <<>>
       /\ NonStaticSetAfter = {}
       /\ gm.engine
       /\ gm.initialBodyCount > 0) =>
        /\ gm'.isGameOver
        /\ gm'.modalVisible
        /\ (~gm.isGameOver => gameOverShown' = 1) ]_vars

\* The collision listener has collected the last movable body: game over.
C22_Witness ==
  /\ phase = "collided"
  /\ collected # <<>>
  /\ NonStaticSet(world) = {}
  /\ gm.isGameOver
  /\ gameOverShown = 1

\* C23: the settled test is the strict test over the goal region narrowed
\* by 85 px from its top edge; the region is 180 by 140 px for every canvas
\* size, so both tests have points that pass them, and a centre that passes
\* the settled test passes the strict test.
C23_SettledWithinStrict ==
  /\ box.boxDimensions.width = 180 * Scale
  /\ box.boxDimensions.height = 140 * Scale
  /\ 85 * Scale < box.boxDimensions.height
  /\ \A b \in NonStaticSet(world) :
       /\ isBodyInBox(b) =
            (/\ GoalMin.x < bodies[b].x /\ bodies[b].x < GoalMax.x
             /\ GoalMin.y + 85 * Scale < bodies[b].y
             /\ bodies[b].y < GoalMax.y)
       /\ (isBodyInBox(b) => isBodyInsideBox(b))

\* On the 800 by 600 canvas a body sits 1/12 px below the inset line: it
\* passes both tests, and the polling pass is about to run.
C23_Witness ==
  /\ box.width = 800 * Scale
  /\ phase # "idle"
  /\ \E b \in NonStaticSet(world) :
       /\ bodies[b].y = GoalMin.y + SettledInset + 1
       /\ isBodyInBox(b)
       /\ isBodyInsideBox(b)

\* C24: setBounds(R) leaves the wrapper with R as its bounds, both corners,
\* and moves no body; a wrapBody call is computed against the bounds the
\* wrapper holds at that moment, the last ones set, and leaves them alone.
C24_SetBoundsReplaces ==
  [][ /\ \A bounds \in WrapRegions :
           SetBounds(bounds) =>
             /\ wrapper'.bounds = bounds
             /\ bodies' = bodies
             /\ world' = world
      /\ \A b \in DOMAIN bodies :
           WrapBody(b) =>
             LET R == wrapper.bounds
                 P == PositionOf(b)
             IN /\ wrapper' = wrapper
                /\ R \in WrapRegions
                /\ (P.x < R.min.x =>
                      bodies'[b].x = R.max.x - (R.min.x - P.x))
                /\ (P.x > R.max.x =>
                      bodies'[b].x = R.min.x + (P.x - R.max.x))
                /\ (P.y < R.min.y =>
                      bodies'[b].y = R.max.y - (R.min.y - P.y))
                /\ (P.y > R.max.y =>
                      bodies'[b].y = R.min.y + (P.y - R.max.y)) ]_vars

\* The bounds are (100,50)-(300,150) and the body is at (190, 200), where
\* wrapBody puts (-10, 300) under these bounds; (-10, 300) is an initial
\* position under the bounds (0,0)-(800,600) only.
C24_Witness ==
  /\ wrapper.bounds = Region(100 * Scale, 50 * Scale, 300 * Scale, 150 * Scale)
  /\ \E b \in NonStaticSet(world) : bodies[b] = Movable(Pt(190, 200))

\* C25: for a coordinate more than one width of the bounds outside them,
\* one wrapBody call gives the value of the formula applied once, which is
\* still outside the bounds on that axis.
C25_SingleWrap ==
  [][ \A b \in DOMAIN bodies :
        WrapBody(b) =>
          LET R == wrapper.bounds
              P == PositionOf(b)
              w == R.max.x - R.min.x
              h == R.max.y - R.min.y
          IN /\ (P.x < R.min.x - w =>
                   /\ bodies'[b].x = R.max.x - (R.min.x - P.x)
                   /\ bodies'[b].x < R.min.x)
             /\ (P.x > R.max.x + w =>
                   /\ bodies'[b].x = R.min.x + (P.x - R.max.x)
                   /\ bodies'[b].x > R.max.x)
             /\ (P.y < R.min.y - h =>
                   /\ bodies'[b].y = R.max.y - (R.min.y - P.y)
                   /\ bodies'[b].y < R.min.y)
             /\ (P.y > R.max.y + h =>
                   /\ bodies'[b].y = R.min.y + (P.y - R.max.y)
                   /\ bodies'[b].y > R.max.y) ]_vars

\* The bounds are (100,50)-(300,150) and the body is at (1410, 1110), where
\* one wrapBody call puts (1610, 1210): still outside on both axes.
C25_Witness ==
  /\ wrapper.bounds = Region(100 * Scale, 50 * Scale, 300 * Scale, 150 * Scale)
  /\ \E b \in NonStaticSet(world) : bodies[b] = Movable(Pt(1410, 1110))

\* C26: a click whose first hit body is movable calls applyForce on that
\* body and adds exactly one attempt, with the score, the game-over flag and
\* the world unchanged; a click whose first hit body is static, or that
\* hits nothing, with or without Ctrl, applies no force and leaves the
\* attempts and the score unchanged.
C26_AttemptsCountForces ==
  [][ \A p \in ClickPoints, ctrlKey \in BOOLEAN :
        HandleClick(p, ctrlKey) =>
          LET hit == QueryPoint(world, p)
          IN IF hit # <<>> /\ ~bodies[hit[1]].isStatic
             THEN /\ forced' = <<hit[1]>>
                  /\ gm'.attempts = gm.attempts + 1
                  /\ gm'.score = gm.score
                  /\ gm'.isGameOver = gm.isGameOver
                  /\ world' = world
             ELSE /\ forced' = <<>>
                  /\ gm'.attempts = gm.attempts
                  /\ gm'.score = gm.score
                  /\ gm'.isGameOver = gm.isGameOver ]_vars

\* A body created at the pointer has been clicked twice.
C26_Witness ==
  /\ Len(forced) = 1
  /\ gm.attempts = 2
  /\ gm.attemptsText = <<"Attempts: ", 2>>
  /\ forced[1] \in NonStaticSet(world)

\* A step of the debug control that runs updateDebugMode.
IsDebugUpdateStep ==
  \/ ConstructDebugControl
  \/ \E i \in 1..MaxControls : ToggleCheckbox(i)

\* After the step the item under "debugMode" is the text of every control's
\* flag, and reading it back gives that flag.
StoredIsCurrent ==
  \A c \in 1..Len(debug'.controls) :
    /\ debug'.storage = <<String(debug'.controls[c].isDebugMode)>>
    /\ storedMode(debug'.storage) = debug'.controls[c].isDebugMode

\* The control a construction step adds starts in the mode the item read
\* back as before the step: off when nothing was stored.
StartsInStoredMode ==
  /\ Len(debug'.controls) = Len(debug.controls) + 1
  /\ debug'.controls[Len(debug'.controls)].isDebugMode
       = storedMode(debug.storage)
  /\ (debug.storage = <<>> =>
        ~debug'.controls[Len(debug'.controls)].isDebugMode)

\* C27 (as stated): after every debug-mode update the stored item equals
\* the current flag, a DebugControl constructed later starts in the last
\* stored mode (off when nothing was stored), and constructing it does not
\* change the stored item.
C27_ConstructionKeepsItem ==
  [][ /\ (IsDebugUpdateStep => StoredIsCurrent)
      /\ (ConstructDebugControl =>
            StartsInStoredMode /\ debug'.storage = debug.storage)
      /\ (ReloadPage => debug'.storage = debug.storage) ]_vars

\* C27 (amended): after every debug-mode update the stored item is the text
\* of the current flag, a DebugControl constructed later starts in the
\* last stored mode (off when nothing was stored), and constructing it
\* leaves a stored item as it is but stores "false" when nothing was
\* stored, so that the mode read back is unchanged; a reload and the game's
\* operations leave the item alone.
C27_DebugModeRoundTrip ==
  [][ /\ (IsDebugUpdateStep => StoredIsCurrent)
      /\ (ConstructDebugControl =>
            /\ StartsInStoredMode
            /\ storedMode(debug'.storage) = storedMode(debug.storage)
            /\ debug'.storage =
                 IF debug.storage = <<>> THEN <<"false">> ELSE debug.storage)
      /\ (ReloadPage => debug'.storage = debug.storage)
      /\ (~IsDebugUpdateStep => debug'.storage = debug.storage) ]_vars

\* Two controls on one page, both constructed with the mode stored on: each
\* added its mouse constraint, and the second one's own checkbox is unused.
C27_Witness ==
  /\ debug.storage = <<"true">>
  /\ Len(debug.controls) = 2
  /\ \A c \in 1..2 : debug.controls[c] =
        [isDebugMode |-> TRUE, mouseConstraint |-> "added"]
  /\ debug.checkboxes = <<TRUE, FALSE>>
  /\ debug.constraints = 2
  /\ debug.options

\* C28 (as stated): whenever the engine is set, the initial count is
\* positive and no movable body is in the world, the game is over or
\* becomes over later on, also when the last movable body left through the
\* Delete key, a right-click or a right-drag.
C28_RemovalEndsGame ==
  [](gm.engine /\ gm.initialBodyCount > 0 /\ NonStaticSet(world) = {}
       => <>gm.isGameOver)

\* The static bodies of the world: the screen's walls and the box's walls.
StaticSet(w) == { b \in Range(w) : bodies[b].isStatic }

\* C29: no tick (polling or collision) and no input handler (right-click,
\* right-drag, Delete key) removes a static body: every static body of the
\* world is in the world after the step, unchanged, so without a resize
\* the four screen walls and the three box walls are always there.
C29_StaticBodiesStay ==
  [][ /\ \A b \in StaticSet(world) :
            b \in Range(world') /\ bodies'[b] = bodies[b]
      /\ StaticSet(world) = 1..7
      /\ Range(box.boxParts) \subseteq Range(world') ]_vars

\* One shape was collected by the box and the other two were removed by
\* the user; the seven walls are all that is left.
C29_Witness ==
  /\ world = <<1, 2, 3, 4, 5, 6, 7>>
  /\ \A b \in 1..7 : bodies[b].isStatic
  /\ gm.score = 1
  /\ ~gm.isGameOver

\* The step leaves the score, the attempts, the game-over flag and what the
\* page shows of them as they are, and notifies nobody.
SessionUntouched ==
  /\ gm' = gm
  /\ gameOverShown' = 0
  /\ callbackCalls' = 0
  /\ collected' = <<>>

\* C30: a Delete key press removes exactly the first movable body in the
\* world's order (nothing when there is none), a right-click removes every
\* movable body under the pointer and no static one, a Ctrl-click on empty
\* space appends one movable body at the pointer, and none of them changes
\* the score, the attempts or the game-over flag.
C30_RemovalsKeepCounters ==
  [][ /\ (HandleKeyDown("Delete") =>
            /\ world' =
                 IF NonStaticBodies(world) = <<>> THEN world
                 ELSE SelectSeq(world,
                        LAMBDA b : b # Head(NonStaticBodies(world)))
            /\ SessionUntouched)
      /\ \A p \in ClickPoints :
           /\ (HandleMouseDown(2, p) =>
                 /\ world' = SelectSeq(world,
                       LAMBDA b : bodies[b].isStatic \/ ~Contains(b, p))
                 /\ SessionUntouched)
           /\ (HandleClick(p, TRUE) /\ QueryPoint(world, p) = <<>> =>
                 /\ world' = Append(world, nextId)
                 /\ bodies'[nextId] = Movable(p)
                 /\ \A b \in Range(world) : bodies'[b] = bodies[b]
                 /\ SessionUntouched) ]_vars

\* The three shapes were removed and one body was created; the session
\* is as it started, not over.
C30_Witness ==
  /\ NonStaticSet(world) = {FirstCreatedId}
  /\ Len(world) = 8
  /\ gm.engine /\ gm.initialBodyCount = NumShapes
  /\ gm.score = 0 /\ gm.attempts = 0 /\ ~gm.isGameOver
  /\ ~gm.modalVisible

\* C31 (as stated): whenever a step shows the game-over modal with the
\* final statistics, attempts is greater than 0 and the ratio printed
\* after the attempts is a number.
C31_RatioDefined ==
  [][ gameOverShown' > 0 =>
        /\ gm'.attempts > 0
        /\ gm'.finalAttemptsText[3] \in Nat ]_vars

\* C32 (as stated): after every operation of the GameManager the game-over
\* modal is visible exactly when the game-over flag is true.
C32_ModalIffGameOver == gm.modalVisible <=> gm.isGameOver

\* The static bodies of the world after the step that are no part of the
\* box: the screen's walls.
ScreenWallsAfter ==
  { b \in Range(world') : bodies'[b].isStatic } \ Range(box'.boxParts)

\* C33: BoundaryWalls.resize(width, height) leaves exactly four screen
\* walls in the world, new bodies built from the new dimensions; the walls
\* held before are gone, getWalls() gives exactly the four new ones, and
\* every other body stays, in the same order and unchanged. After any
\* number of resizes the screen walls of the world are the four held.
C33_WallsRebuilt ==
  [][ /\ \A canvas \in Canvases :
            ResizeWalls(canvas.width, canvas.height) =>
              LET old == boundaryWalls.walls
                  new == boundaryWalls'.walls
                  built == ScreenWalls(canvas.width, canvas.height)
              IN /\ Len(new) = 4
                 /\ Cardinality(Range(new)) = 4
                 /\ Range(new) \cap Range(world) = {}
                 /\ \A i \in 1..4 : bodies'[new[i]] = built[i]
                 /\ Range(old) \cap Range(world') = {}
                 /\ SelectSeq(world', LAMBDA b : b \notin Range(new))
                      = SelectSeq(world, LAMBDA b : b \notin Range(old))
                 /\ \A b \in Range(world) \ Range(old) :
                      bodies'[b] = bodies[b]
                 /\ boundaryWalls'.width = canvas.width
                 /\ boundaryWalls'.height = canvas.height
      /\ ScreenWallsAfter = Range(boundaryWalls'.walls)
      /\ Cardinality(ScreenWallsAfter) = 4
      /\ \A i \in 1..4 :
           bodies'[boundaryWalls'.walls[i]] =
             ScreenWalls(boundaryWalls'.width, boundaryWalls'.height)[i]
    ]_vars

\* The walls were rebuilt twice, last for the 800 x 600 canvas, after the
\* box was rebuilt once and one shape was removed.
C33_Witness ==
  /\ boundaryWalls.width = 800 * Scale
  /\ boundaryWalls.walls[1] >= FirstCreatedId + 7
  /\ Len(box.boxParts) = 6
  /\ Cardinality(NonStaticSet(world)) = 2
  /\ Cardinality(StaticSet(world) \ Range(box.boxParts)) = 4

\* The GameManager as a restart leaves it: nothing scored, nothing
\* attempted, playing, the modal hidden.
FreshSession ==
  [score |-> 0, attempts |-> 0, isGameOver |-> FALSE, modalVisible |-> FALSE]

\* C34: a click on the restart button hides the modal and resets the
\* session before it calls the restart callback: the callback, called once
\* when one is registered, finds score 0, attempts 0, the game not over and
\* the modal hidden; with no callback registered nothing is called and the
\* session is reset all the same.
C34_RestartOrdering ==
  [][ instance # 0 /\ RestartButtonClick =>
        /\ gm'.score = 0 /\ gm'.attempts = 0
        /\ gm'.scoreText = <<"Score: ", 0>>
        /\ gm'.attemptsText = <<"Attempts: ", 0>>
        /\ ~gm'.isGameOver /\ ~gm'.modalVisible
        /\ callbackSaw' =
             IF gm.restartCallback THEN <<FreshSession>> ELSE <<>>
        /\ callbackCalls' = Len(callbackSaw') ]_vars

\* The restart button was clicked after a game over, with a callback
\* registered: the modal's texts still show the finished game.
C34_Witness ==
  /\ callbackSaw = <<FreshSession>>
  /\ callbackCalls = 1
  /\ gm.finalScoreText # <<>>
  /\ gm.finalScoreText[2] > 0
  /\ ~gm.modalVisible /\ ~gm.isGameOver /\ gm.score = 0

\* C35: a mousemove with the left button and Ctrl creates a body exactly
\* when no drag creation happened before or the last one is at least
\* 100 ms back, and then records the current time; no other mousemove
\* creates or records anything, so two recorded times are at least 100 ms
\* apart. A Ctrl+click on empty space creates whatever the time and leaves
\* the record alone.
C35_DragCreationRate ==
  [][ /\ \A e \in MouseMoves, p \in ClickPoints :
            HandleMouseMove(e.buttons, p, e.ctrlKey, e.time) =>
              IF e.buttons = 1 /\ e.ctrlKey
                 /\ (lastCreationTime = 0
                       \/ e.time - lastCreationTime >= 100)
              THEN /\ world' = Append(world, nextId)
                   /\ lastCreationTime' = e.time
              ELSE /\ Range(world') \subseteq Range(world)
                   /\ lastCreationTime' = lastCreationTime
      /\ \A p \in ClickPoints :
            HandleClick(p, TRUE) /\ QueryPoint(world, p) = <<>> =>
              /\ world' = Append(world, nextId)
              /\ lastCreationTime' = lastCreationTime
      /\ (lastCreationTime' # lastCreationTime =>
            /\ nextId' = nextId + 1
            /\ lastCreationTime = 0
                 \/ lastCreationTime' - lastCreationTime >= 100) ]_vars

\* Three bodies were created. A Ctrl+click creates the first body of a run
\* at most, so the last two were created by dragging, the later one 100 ms
\* or more after the other.
C35_Witness ==
  /\ nextId = FirstCreatedId + 3
  /\ lastCreationTime >= 1100
  /\ {FirstCreatedId + 1, FirstCreatedId + 2} \subseteq NonStaticSet(world)

\* C36: on a page with its one DebugControl, whatever was stored when it
\* was constructed and however often the checkbox is toggled, the world
\* holds one mouse constraint of the control when the debug mode is on and
\* none when it is off: turning the mode off removes the constraint the
\* last turning on added, which is the one the control holds.
C36_OneMouseConstraint ==
  Len(debug.controls) = 1 =>
    /\ debug.constraints = (IF debug.controls[1].isDebugMode THEN 1 ELSE 0)
    /\ debug.controls[1].isDebugMode
         <=> debug.controls[1].mouseConstraint = "added"
    /\ debug.controls[1].isDebugMode = debug.checkboxes[1]

\* The mode of the page's control was on and has been turned off: its
\* constraint is out of the world again.
C36_Witness ==
  /\ Len(debug.controls) = 1
  /\ debug.controls[1] =
       [isDebugMode |-> FALSE, mouseConstraint |-> "removed"]
  /\ debug.constraints = 0
  /\ debug.storage = <<"false">>
  /\ debug.renderMouse

\* C37: once the GameManager is constructed, and after every operation,
\* the score display shows the current score and the attempts display the
\* current attempts.
C37_DisplaysMatch ==
  instance # 0 =>
    /\ gm.scoreText = <<"Score: ", gm.score>>
    /\ gm.attemptsText = <<"Attempts: ", gm.attempts>>

\* A second game on the same page: the first one ended with 2 points, the
\* session was reset, and one point and one attempt were counted since.
C37_Witness ==
  /\ instance # 0
  /\ gm.finalScoreText = <<"Final Score: ", 2>>
  /\ gm.score = 1 /\ gm.scoreText = <<"Score: ", 1>>
  /\ gm.attempts = 1 /\ gm.attemptsText = <<"Attempts: ", 1>>
  /\ ~gm.isGameOver

====
